---- MODULE Spec2Model ----
(***************************************************************************)
(* Client-side orchestration layer of the RAG front end: Home (page.tsx), *)
(* UploadZone, DocumentList, ChatInterface and AgentChat, as state        *)
(* machines over the event loop.  Every await of the source is a          *)
(* suspension point: the part of a handler before it and the part after   *)
(* it are separate actions, and other events may run in between.          *)
(***************************************************************************)
EXTENDS Integers, Sequences, FiniteSets, TLC

(* ------------------------------ bounds -------------------------------- *)
\* documents the Ingestion Service ever creates
MaxDocs == 2
\* timer callbacks of one poller that may be running at the same time
MaxPolls == 1
\* DELETE requests that may be under way at the same time
MaxDeletes == 1
\* chat requests accepted in a run of the multi-context specification
MaxSends == 2
\* frames in one response body of the streaming specification
MaxFrames == 3
\* content deltas of an answer that starts with a thinking status frame
MaxDeltas == 2
\* chat requests accepted in a run of the streaming specification
MaxStreamSends == 1
\* questions AgentChat accepts in a run
MaxAgentSends == 2
\* session identifiers AgentChat draws in a run
MaxAgentSessions == 3
MaxSources == 1
MaxSyncCalls == 2
MaxBatches == 1

(* ----------------------------- constants ------------------------------ *)
GLOBAL_CHAT_KEY == "__global__"

DocIds == 1..MaxDocs
Terminal == {"ready", "failed"}

\* A Document as far as the orchestration reads it.  id 0 stands for null.
Doc(i, st, sg) == [id |-> i, status |-> st, stage |-> sg]
NoDoc == Doc(0, "none", "none")

\* What GET /api/documents/{id} answers for a document whose server-side
\* status is st.
Snapshot(i, st) == Doc(i, st, IF st = "processing" THEN "chunking" ELSE "none")

\* One running callback of a poller's setInterval: the ids it still has to
\* query (captured when the effect ran), the selected id it captured, the
\* response of the query it is awaiting, and whether its catch block has
\* logged a failed query.
NoResp == [kind |-> "none", doc |-> NoDoc]
PollCb(todo, sel) == [todo |-> todo, sel |-> sel, resp |-> NoResp, logged |-> FALSE]

(* ------------------------------------------------------------------------ *)
(* Text, messages and the wire format of /api/chat                          *)
(* ------------------------------------------------------------------------ *)
\* A text is a sequence of tokens; concatenation is \o, the empty string is
\* <<>> (falsy in the source).  The placeholder is a text like any other.
Placeholder == <<"Analyzing documents...">>

\* String.prototype.trim on a text whose blanks are the token " "
RECURSIVE TrimLeft(_)
TrimLeft(t) == IF t # <<>> /\ Head(t) = " " THEN TrimLeft(Tail(t)) ELSE t
RECURSIVE TrimRight(_)
TrimRight(t) ==
    IF t # <<>> /\ t[Len(t)] = " " THEN TrimRight(SubSeq(t, 1, Len(t) - 1)) ELSE t
Trim(t) == TrimRight(TrimLeft(t))

Message(i, role, content) == [id |-> i, role |-> role, content |-> content]

\* The body of a response is text: here a sequence of pieces.  A frame is
\* the line "data: " + JSON, followed by an empty line.  The prefix is the
\* two pieces "da" "ta: "; a JSON object is its text up to the closing brace
\* followed by the piece "}".
Prefix == <<"da", "ta: ">>
JsonOpen == {"{status:thinking", "{content:a", "{content:Analyzing documents...",
             "{error:boom", "{done:true"}
Frame(open) == Prefix \o <<open, "}", "\n", "\n">>
\* the number of pieces of a frame
FrameLen == Len(Frame("{done:true"))

Data(status, content, error, done) ==
    [status |-> status, content |-> content, error |-> error, done |-> done]
SyntaxError == Data("SyntaxError", <<>>, "", FALSE)

\* JSON.parse: the object of a complete JSON text, a SyntaxError otherwise.
JSONParse(t) ==
    IF Len(t) = 2 /\ t[2] = "}" /\ t[1] \in JsonOpen
    THEN CASE t[1] = "{status:thinking" -> Data("thinking", <<>>, "", FALSE)
           [] t[1] = "{content:a" -> Data("", <<"a">>, "", FALSE)
           [] t[1] = "{content:Analyzing documents..." -> Data("", Placeholder, "", FALSE)
           [] t[1] = "{error:boom" -> Data("", <<>>, "boom", FALSE)
           [] t[1] = "{done:true" -> Data("", <<>>, "", TRUE)
    ELSE SyntaxError

\* chunk.split("\n"): the lines of a chunk
RECURSIVE Split(_, _)
Split(chunk, line) ==
    IF chunk = <<>> THEN <<line>>
    ELSE IF Head(chunk) = "\n" THEN <<line>> \o Split(Tail(chunk), <<>>)
    ELSE Split(Tail(chunk), Append(line, Head(chunk)))

\* line.startsWith("data: ")
StartsWithData(line) == Len(line) >= 2 /\ SubSeq(line, 1, 2) = Prefix
\* line.slice(6)
Slice6(line) == SubSeq(line, 3, Len(line))

\* The state of the read loop inside one chunk: the messages so far, whether
\* onMessagesChange was called, the persistence calls issued, the message of
\* the Error thrown ("" while none is), and whether a parsed frame had
\* data.done.
Fold(cur, changed, saves, thrown, done) ==
    [cur |-> cur, changed |-> changed, saves |-> saves, thrown |-> thrown,
     done |-> done]

ContentOf(msgs, i) ==
    IF \E k \in DOMAIN msgs : msgs[k].id = i
    THEN msgs[CHOOSE k \in DOMAIN msgs : msgs[k].id = i].content
    ELSE <<>>

\* if (data.status === "thinking") { ... }
FoldThinking(msgs, aid) ==
    [k \in DOMAIN msgs |->
        IF msgs[k].id = aid THEN [msgs[k] EXCEPT !.content = Placeholder] ELSE msgs[k]]

\* if (data.content) { ... }
FoldContent(msgs, aid, delta) ==
    [k \in DOMAIN msgs |->
        IF msgs[k].id = aid
        THEN [msgs[k] EXCEPT !.content =
                 IF @ = Placeholder THEN delta ELSE @ \o delta]
        ELSE msgs[k]]

\* catch (e) of a line whose JSON.parse threw a SyntaxError, were it to
\* rethrow like any other error
OnSyntaxErrorRethrow(f) == [f EXCEPT !.thrown = "SyntaxError"]
\* catch (e) { if (e instanceof SyntaxError) continue; throw e; }
OnSyntaxError(f) == f

\* The body of the for loop for one line of the chunk.
FoldLine(f, line, aid, usid) ==
    IF f.thrown # "" \/ ~StartsWithData(line) THEN f
    ELSE LET data == JSONParse(Slice6(line)) IN
         IF data = SyntaxError THEN OnSyntaxError(f)
         ELSE LET m1 == IF data.status = "thinking"
                        THEN FoldThinking(f.cur, aid) ELSE f.cur
                  m2 == IF data.content # <<>>
                        THEN FoldContent(m1, aid, data.content) ELSE m1
                  ch == f.changed \/ data.status = "thinking" \/ data.content # <<>>
                  dn == f.done \/ data.done
              IN IF data.error # "" THEN Fold(m2, ch, f.saves, data.error, f.done)
                 ELSE IF data.done /\ usid # 0 /\ ContentOf(m2, aid) # <<>>
                 THEN Fold(m2, ch,
                           Append(f.saves, [session_id |-> usid,
                                            content |-> ContentOf(m2, aid),
                                            pc |-> "sent"]), "", dn)
                 ELSE Fold(m2, ch, f.saves, "", dn)

RECURSIVE FoldLines(_, _, _, _)
FoldLines(f, lines, aid, usid) ==
    IF lines = <<>> THEN f
    ELSE FoldLines(FoldLine(f, Head(lines), aid, usid), Tail(lines), aid, usid)

\* One iteration of the while loop: decode the chunk, split it, fold its lines.
FoldChunk(cur, chunk, aid, usid) ==
    FoldLines(Fold(cur, FALSE, <<>>, "", FALSE), Split(chunk, <<>>), aid, usid)


VARIABLES
    documents,          \* Home: Document[] (newest first)
    selectedDocument,   \* Home: Document | null (a copy, not a reference)
    activeTab,          \* Home: "upload" | "chat" | "global"
    serverDocs,         \* Ingestion Service: id -> status
    listFetch,          \* the initial GET /api/documents: its stage / result
    homePolls,          \* Home: running callbacks of the 1500 ms interval
    uzProcessing,       \* UploadZone: processingDocs
    uzPolls,            \* UploadZone: running callbacks of the 2000 ms interval
    uploads,            \* ids of accepted uploads whose response is under way
    deletes,            \* DocumentList: DELETE requests whose response is under way
    chatStateMap,       \* Home: context key -> {messages, sessionId}
    ci,                 \* the mounted ChatInterface instance: its useState values
    exchanges,          \* the handleSubmit invocations so far, each with its closure
    nextSid,            \* Answer Service: the next session identifier it issues
    issuedFor,          \* Answer Service: session identifier -> context of the request
    saveCalls,          \* the POST /api/chat/save-response calls issued
    agent,              \* the AgentChat instance: its useState values and refs
    agentCalls,         \* the invocations of AgentChat's send so far
    sync,               \* SyncSourcePanel: its useState values
    sources,            \* SyncSourcePanel: sources, the SyncSource[] last loaded
    serverSources,      \* Sync Provider: the SyncSources it holds
    syncCalls,          \* SyncSourcePanel: its requests under way
    batches,            \* the invocations of importSelected so far
    docNames            \* document id -> original_filename (the same in every
                        \* Document object of that id)

docVars == <<documents, selectedDocument, activeTab, serverDocs, listFetch,
             homePolls, uzProcessing, uzPolls, uploads, deletes>>
answerVars == <<nextSid, issuedFor, saveCalls>>
chatVars == <<chatStateMap, ci, exchanges, answerVars>>
agentVars == <<agent, agentCalls>>
syncVars == <<sync, sources, serverSources, syncCalls, batches, docNames>>
vars == <<docVars, chatVars, agentVars, syncVars>>

(* ------------------------------------------------------------------------ *)
(* Chat state held by Home and by the ChatInterface instance                *)
(* ------------------------------------------------------------------------ *)
\* String(selectedDocument.id)
KeyOf(i) == ToString(i)
Keys == {GLOBAL_CHAT_KEY} \cup {KeyOf(i) : i \in DocIds}
\* the key of no context (no document selected in document mode)
NoKey == ""

ChatState(messages, sessionId) ==
    [present |-> TRUE, messages |-> messages, sessionId |-> sessionId]
\* a key chatStateMap has no entry for
NoChat == [present |-> FALSE, messages |-> <<>>, sessionId |-> 0]

\* The context the rendered ChatInterface belongs to.
ActiveKeyOf(tab, sel) ==
    IF tab = "global" THEN GLOBAL_CHAT_KEY
    ELSE IF sel # NoDoc THEN KeyOf(sel.id) ELSE NoKey
ActiveKey == ActiveKeyOf(activeTab, selectedDocument)

\* The props messages and sessionId Home passes to ChatInterface.
MessagesProp(tab, sel, map) ==
    IF ActiveKeyOf(tab, sel) = NoKey THEN <<>> ELSE map[ActiveKeyOf(tab, sel)].messages
SessionProp(tab, sel, map) ==
    IF ActiveKeyOf(tab, sel) = NoKey THEN 0 ELSE map[ActiveKeyOf(tab, sel)].sessionId

\* useState values of a ChatInterface; sessionProp is the sessionId prop of
\* its last render (what the effect's dependency array compares with).
Instance(mounted, input, isLoading, currentSessionId, error, sessionProp) ==
    [mounted |-> mounted, input |-> input, isLoading |-> isLoading,
     currentSessionId |-> currentSessionId, error |-> error,
     sessionProp |-> sessionProp]
Unmounted == Instance(FALSE, <<>>, FALSE, 0, "", 0)

\* An exchange whose handleSubmit has returned keeps only what was sent.
Finished(x) ==
    [pc |-> "done", live |-> FALSE, key |-> x.key, reqKey |-> x.reqKey,
     sidSent |-> x.sidSent, msgs0 |-> <<>>, user |-> x.user, aid |-> x.aid,
     usid |-> 0, cur |-> <<>>, body |-> <<>>, wire |-> <<>>, done |-> FALSE]

\* Home renders after every state change.  The ternary of page.tsx puts the
\* ChatInterface of the chat tab and the one of the global tab at the same
\* position, so one instance lives as long as the tab is not "upload"; its
\* effect copies the sessionId prop into currentSessionId when the prop
\* differs from the one of the previous render.  c and xs are the instance
\* and the exchanges after the handler's own updates.
Render(c, xs) ==
    LET prop == SessionProp(activeTab', selectedDocument', chatStateMap') IN
    /\ ci' = IF activeTab' = "upload" THEN Unmounted
             ELSE IF ~c.mounted THEN Instance(TRUE, <<>>, FALSE, prop, "", prop)
             ELSE [c EXCEPT !.currentSessionId = IF prop # c.sessionProp THEN prop ELSE @,
                            !.sessionProp = prop]
    /\ exchanges' = IF activeTab' = "upload"
                    THEN [k \in DOMAIN xs |-> [xs[k] EXCEPT !.live = FALSE]]
                    ELSE xs

(* --------------------------- sequence helpers -------------------------- *)
RECURSIVE SeqFilterProcessing(_)
\* documents.filter(d => d.status === "processing").map(d => d.id)
SeqFilterProcessing(ds) ==
    IF ds = <<>> THEN <<>>
    ELSE (IF Head(ds).status = "processing" THEN <<Head(ds).id>> ELSE <<>>)
         \o SeqFilterProcessing(Tail(ds))

RemoveAt(s, i) == SubSeq(s, 1, i - 1) \o SubSeq(s, i + 1, Len(s))

\* prev.map(d => d.id === u.id ? u : d)
MapReplace(ds, u) == [k \in DOMAIN ds |-> IF ds[k].id = u.id THEN u ELSE ds[k]]

\* prev.filter(d => d.id !== id)
RECURSIVE FilterOutId(_, _)
FilterOutId(ds, i) ==
    IF ds = <<>> THEN <<>>
    ELSE (IF Head(ds).id = i THEN <<>> ELSE <<Head(ds)>>) \o FilterOutId(Tail(ds), i)

RECURSIVE FilterOutNat(_, _)
FilterOutNat(s, i) ==
    IF s = <<>> THEN <<>>
    ELSE (IF Head(s) = i THEN <<>> ELSE <<Head(s)>>) \o FilterOutNat(Tail(s), i)

StatusOf(ds, i) ==
    IF \E k \in DOMAIN ds : ds[k].id = i
    THEN ds[CHOOSE k \in DOMAIN ds : ds[k].id = i].status
    ELSE "absent"

(* ------------------------------------------------------------------------ *)
(* Ingestion Service                                                        *)
(* ------------------------------------------------------------------------ *)
\* The pipeline finishes a document: processing -> ready | failed.
ServerFinish(i, st) ==
    /\ serverDocs[i] = "processing"
    /\ serverDocs' = [serverDocs EXCEPT ![i] = st]
    /\ UNCHANGED <<documents, selectedDocument, activeTab, listFetch, homePolls,
                   uzProcessing, uzPolls, uploads, deletes>>
    /\ UNCHANGED chatVars
    /\ UNCHANGED <<agentVars, syncVars>>

(* ------------------------------------------------------------------------ *)
(* UploadZone: upload                                                       *)
(* ------------------------------------------------------------------------ *)
\* the name of the file the user uploads
UploadedName == "u.pdf"
\* POST /api/upload is accepted: the service creates the document.
UploadRequest(i) ==
    /\ serverDocs[i] = "absent"
    /\ \A j \in DocIds : j < i => serverDocs[j] # "absent"
    /\ serverDocs' = [serverDocs EXCEPT ![i] = "processing"]
    /\ uploads' = Append(uploads, i)
    /\ docNames' = [docNames EXCEPT ![i] = UploadedName]
    /\ UNCHANGED <<documents, selectedDocument, activeTab, listFetch, homePolls,
                   uzProcessing, uzPolls, deletes>>
    /\ UNCHANGED chatVars
    /\ UNCHANGED <<agentVars, sync, sources, serverSources, syncCalls, batches>>

\* Home.handleDocumentUploaded
handleDocumentUploaded(doc) ==
    /\ documents' = <<doc>> \o documents
    /\ selectedDocument' = doc

\* The upload's response arrives: onDocumentUploaded, then
\* setProcessingDocs(prev => [...prev, id]).
UploadResponse(k) ==
    /\ k \in DOMAIN uploads
    /\ handleDocumentUploaded(Doc(uploads[k], "processing", "none"))
    /\ uzProcessing' = Append(uzProcessing, uploads[k])
    /\ uploads' = RemoveAt(uploads, k)
    /\ UNCHANGED <<activeTab, serverDocs, listFetch, homePolls, uzPolls, deletes>>
    /\ UNCHANGED <<chatStateMap, answerVars>>
    /\ Render(ci, exchanges)
    /\ UNCHANGED <<agentVars, syncVars>>

(* ------------------------------------------------------------------------ *)
(* Home: the 1500 ms reconciliation loop                                    *)
(* ------------------------------------------------------------------------ *)
\* The effect runs again after every change of documents or selectedDocument:
\* it clears the interval of the previous run and sets a new one unless its
\* processingDocs is empty.
HomeTimerArmedWhileAny == documents # <<>>

HomeTimerArmed == SeqFilterProcessing(documents) # <<>>

\* A tick of the interval starts a callback over the list the effect captured.
HomeTick ==
    /\ HomeTimerArmed
    /\ Len(homePolls) < MaxPolls
    /\ homePolls' = Append(homePolls,
                           PollCb(SeqFilterProcessing(documents), selectedDocument.id))
    /\ UNCHANGED <<documents, selectedDocument, activeTab, serverDocs, listFetch,
                   uzProcessing, uzPolls, uploads, deletes>>
    /\ UNCHANGED chatVars
    /\ UNCHANGED <<agentVars, syncVars>>

\* What a callback does once the query of its first id is over.
PollAdvance(polls, c) ==
    IF Len(polls[c].todo) = 1 THEN RemoveAt(polls, c)
    ELSE [polls EXCEPT ![c].todo = Tail(@), ![c].resp = NoResp]

\* fetch(`/api/documents/${doc.id}`) is answered by the service with the
\* document as it is at that moment.
HomePollFetch(c) ==
    /\ c \in DOMAIN homePolls
    /\ homePolls[c].resp.kind = "none"
    /\ LET i == Head(homePolls[c].todo) IN
         /\ serverDocs[i] \in {"processing", "ready", "failed"}
         /\ homePolls' = [homePolls EXCEPT ![c].resp =
                            [kind |-> "ok", doc |-> Snapshot(i, serverDocs[i])]]
    /\ UNCHANGED <<documents, selectedDocument, activeTab, serverDocs, listFetch,
                   uzProcessing, uzPolls, uploads, deletes>>
    /\ UNCHANGED chatVars
    /\ UNCHANGED <<agentVars, syncVars>>

\* The query fails (network error, or a response that is not ok): logged,
\* and the loop goes on to the next id.
HomePollFailMarksFailed(c) ==
    /\ c \in DOMAIN homePolls
    /\ homePolls[c].resp.kind = "none"
    /\ homePolls' = PollAdvance([homePolls EXCEPT ![c].logged = TRUE], c)
    /\ documents' = MapReplace(documents, Doc(Head(homePolls[c].todo), "failed", "none"))
    /\ UNCHANGED <<selectedDocument, activeTab, serverDocs, listFetch,
                   uzProcessing, uzPolls, uploads, deletes>>
    /\ UNCHANGED chatVars
    /\ UNCHANGED <<agentVars, syncVars>>
HomePollFail(c) ==
    /\ c \in DOMAIN homePolls
    /\ homePolls[c].resp.kind = "none"
    /\ homePolls' = PollAdvance([homePolls EXCEPT ![c].logged = TRUE], c)
    /\ UNCHANGED <<documents, selectedDocument, activeTab, serverDocs, listFetch,
                   uzProcessing, uzPolls, uploads, deletes>>
    /\ UNCHANGED chatVars
    /\ UNCHANGED <<agentVars, syncVars>>

\* The merge of an ok response into the Document set.
PollMergeSkips(ds, u) == ds

PollMerge(ds, u) == MapReplace(ds, u)

\* The response of the query arrives.
HomePollResponse(c) ==
    /\ c \in DOMAIN homePolls
    /\ homePolls[c].resp.kind = "ok"
    /\ LET u == homePolls[c].resp.doc
           isSel == homePolls[c].sel = u.id IN
         /\ documents' = PollMerge(documents, u)
         /\ selectedDocument' = IF isSel THEN u ELSE selectedDocument
         /\ activeTab' = IF u.status = "ready" /\ isSel THEN "chat" ELSE activeTab
    /\ homePolls' = PollAdvance(homePolls, c)
    /\ UNCHANGED <<serverDocs, listFetch, uzProcessing, uzPolls, uploads, deletes>>
    /\ UNCHANGED <<chatStateMap, answerVars>>
    /\ Render(ci, exchanges)
    /\ UNCHANGED <<agentVars, syncVars>>

(* ------------------------------------------------------------------------ *)
(* UploadZone: the 2000 ms loop over its own processingDocs                 *)
(* ------------------------------------------------------------------------ *)
UploadZoneTick ==
    /\ uzProcessing # <<>>
    /\ Len(uzPolls) < MaxPolls
    /\ uzPolls' = Append(uzPolls, PollCb(uzProcessing, 0))
    /\ UNCHANGED <<documents, selectedDocument, activeTab, serverDocs, listFetch,
                   homePolls, uzProcessing, uploads, deletes>>
    /\ UNCHANGED chatVars
    /\ UNCHANGED <<agentVars, syncVars>>

UploadZonePollFetch(c) ==
    /\ c \in DOMAIN uzPolls
    /\ uzPolls[c].resp.kind = "none"
    /\ LET i == Head(uzPolls[c].todo) IN
         /\ serverDocs[i] \in {"processing", "ready", "failed"}
         /\ uzPolls' = [uzPolls EXCEPT ![c].resp =
                          [kind |-> "ok", doc |-> Snapshot(i, serverDocs[i])]]
    /\ UNCHANGED <<documents, selectedDocument, activeTab, serverDocs, listFetch,
                   homePolls, uzProcessing, uploads, deletes>>
    /\ UNCHANGED chatVars
    /\ UNCHANGED <<agentVars, syncVars>>

UploadZonePollFail(c) ==
    /\ c \in DOMAIN uzPolls
    /\ uzPolls[c].resp.kind = "none"
    /\ uzPolls' = PollAdvance([uzPolls EXCEPT ![c].logged = TRUE], c)
    /\ UNCHANGED <<documents, selectedDocument, activeTab, serverDocs, listFetch,
                   homePolls, uzProcessing, uploads, deletes>>
    /\ UNCHANGED chatVars
    /\ UNCHANGED <<agentVars, syncVars>>

\* Home.handleDocumentReady: the Document set after onDocumentReady(docId).
handleDocumentReady(ds, docId) ==
    [k \in DOMAIN ds |->
        IF ds[k].id = docId THEN [ds[k] EXCEPT !.status = "ready"] ELSE ds[k]]

UploadZonePollResponse(c) ==
    /\ c \in DOMAIN uzPolls
    /\ uzPolls[c].resp.kind = "ok"
    /\ LET u == uzPolls[c].resp.doc IN
         /\ IF u.status = "ready"
            THEN /\ documents' = handleDocumentReady(documents, u.id)
                 /\ activeTab' = "chat"
            ELSE UNCHANGED <<documents, activeTab>>
         /\ uzProcessing' = IF u.status \in Terminal
                            THEN FilterOutNat(uzProcessing, u.id)
                            ELSE uzProcessing
    /\ uzPolls' = PollAdvance(uzPolls, c)
    /\ UNCHANGED <<selectedDocument, serverDocs, listFetch, homePolls, uploads, deletes>>
    /\ UNCHANGED <<chatStateMap, answerVars>>
    /\ Render(ci, exchanges)
    /\ UNCHANGED <<agentVars, syncVars>>

(* ------------------------------------------------------------------------ *)
(* Home: the initial load of the document list                              *)
(* ------------------------------------------------------------------------ *)
\* GET /api/documents: the documents the service holds, newest first.
RECURSIVE ServerList(_)
ServerList(i) ==
    IF i = 0 THEN <<>>
    ELSE (IF serverDocs[i] \in {"processing", "ready", "failed"}
          THEN <<Snapshot(i, serverDocs[i])>> ELSE <<>>) \o ServerList(i - 1)

\* data.find(d => d.status === "ready"), NoDoc when there is none
FindReady(ds) ==
    IF \E k \in DOMAIN ds : ds[k].status = "ready"
    THEN ds[CHOOSE k \in DOMAIN ds :
               /\ ds[k].status = "ready"
               /\ \A j \in 1..(k - 1) : ds[j].status # "ready"]
    ELSE NoDoc

\* The initial GET /api/documents: pending until the service has read its
\* documents, answered while the response is on its way with that list, done
\* once fetchDocuments has returned.
ListFetch(pc, data) == [pc |-> pc, data |-> data]
LoadDone == ListFetch("done", <<>>)

\* The service answers the request with the documents it holds then.
FetchDocumentsAnswer ==
    /\ listFetch.pc = "pending"
    /\ listFetch' = ListFetch("answered", ServerList(MaxDocs))
    /\ UNCHANGED <<documents, selectedDocument, activeTab, serverDocs, homePolls,
                   uzProcessing, uzPolls, uploads, deletes>>
    /\ UNCHANGED chatVars
    /\ UNCHANGED <<agentVars, syncVars>>

\* The response of fetchDocuments arrives with an ok status.
FetchDocumentsResponse ==
    /\ listFetch.pc = "answered"
    /\ listFetch' = LoadDone
    /\ documents' = listFetch.data
    /\ IF FindReady(documents') # NoDoc
       THEN selectedDocument' = FindReady(documents') /\ activeTab' = "chat"
       ELSE UNCHANGED <<selectedDocument, activeTab>>
    /\ UNCHANGED <<serverDocs, homePolls, uzProcessing, uzPolls, uploads, deletes>>
    /\ UNCHANGED <<chatStateMap, answerVars>>
    /\ Render(ci, exchanges)
    /\ UNCHANGED <<agentVars, syncVars>>

\* fetchDocuments fails (not ok, or the request throws): only logged.
FetchDocumentsFail ==
    /\ listFetch.pc \in {"pending", "answered"}
    /\ listFetch' = LoadDone
    /\ UNCHANGED <<documents, selectedDocument, activeTab, serverDocs, homePolls,
                   uzProcessing, uzPolls, uploads, deletes>>
    /\ UNCHANGED chatVars
    /\ UNCHANGED <<agentVars, syncVars>>

(* ------------------------------------------------------------------------ *)
(* DocumentList / Home: selection and deletion                              *)
(* ------------------------------------------------------------------------ *)
\* Home.handleSelectDocument, with a row of the list as it is rendered.
handleSelectDocument(k) ==
    /\ k \in DOMAIN documents
    /\ selectedDocument' = documents[k]
    /\ activeTab' = IF documents[k].status = "ready" THEN "chat" ELSE activeTab
    /\ UNCHANGED <<documents, serverDocs, listFetch, homePolls, uzProcessing,
                   uzPolls, uploads, deletes>>
    /\ UNCHANGED <<chatStateMap, answerVars>>
    /\ Render(ci, exchanges)
    /\ UNCHANGED <<agentVars, syncVars>>

\* DocumentList.handleDelete up to its await: DELETE /api/documents/{id}
\* for a row of the list, which the service carries out (ok) or rejects.  The handler holds
\* the onDeleteDocument of the render it was created in, and that one the
\* selectedDocument of the same render.
handleDelete(k, ok) ==
    /\ k \in DOMAIN documents
    /\ Len(deletes) < MaxDeletes
    /\ \A d \in DOMAIN deletes : deletes[d].id # documents[k].id
    /\ serverDocs[documents[k].id] # "deleted"
    /\ serverDocs' = IF ok THEN [serverDocs EXCEPT ![documents[k].id] = "deleted"]
                     ELSE serverDocs
    /\ deletes' = Append(deletes, [id |-> documents[k].id,
                                  sel |-> selectedDocument.id, ok |-> ok])
    /\ UNCHANGED <<documents, selectedDocument, activeTab, listFetch, homePolls,
                   uzProcessing, uzPolls, uploads>>
    /\ UNCHANGED chatVars
    /\ UNCHANGED <<agentVars, syncVars>>

\* The service rejects the request (a response that is not ok), or the
\* request fails or its response is lost: only logged.
handleDeleteFail(d) ==
    /\ d \in DOMAIN deletes
    /\ deletes' = RemoveAt(deletes, d)
    /\ UNCHANGED <<documents, selectedDocument, activeTab, serverDocs, listFetch,
                   homePolls, uzProcessing, uzPolls, uploads>>
    /\ UNCHANGED chatVars
    /\ UNCHANGED <<agentVars, syncVars>>

\* setChatStateMap of handleDeleteDocument: delete next[String(docId)]
DeleteContextAll(m, docId) == [key \in DOMAIN m |-> NoChat]

DeleteContext(m, docId) == [m EXCEPT ![KeyOf(docId)] = NoChat]

\* The ok response arrives: onDeleteDocument, which is Home.handleDeleteDocument.
handleDeleteDocument(d) ==
    /\ d \in DOMAIN deletes
    /\ deletes[d].ok
    /\ LET docId == deletes[d].id IN
         /\ documents' = FilterOutId(documents, docId)
         /\ IF deletes[d].sel = docId
            THEN selectedDocument' = NoDoc /\ activeTab' = "upload"
            ELSE UNCHANGED <<selectedDocument, activeTab>>
         /\ chatStateMap' = DeleteContext(chatStateMap, docId)
    /\ deletes' = RemoveAt(deletes, d)
    /\ UNCHANGED <<serverDocs, listFetch, homePolls, uzProcessing, uzPolls, uploads,
                   answerVars>>
    /\ Render(ci, exchanges)
    /\ UNCHANGED <<agentVars, syncVars>>

(* ------------------------------------------------------------------------ *)
(* Home: tabs                                                               *)
(* ------------------------------------------------------------------------ *)
\* onClick of a tab, and onNoDocument (which sets "upload").
SetActiveTab(t) ==
    /\ activeTab' = t
    /\ UNCHANGED <<documents, selectedDocument, serverDocs, listFetch, homePolls,
                   uzProcessing, uzPolls, uploads, deletes, chatStateMap, answerVars>>
    /\ Render(ci, exchanges)
    /\ UNCHANGED <<agentVars, syncVars>>

(* ------------------------------------------------------------------------ *)
(* ChatInterface                                                            *)
(* ------------------------------------------------------------------------ *)
\* ChatInterface returns renderMessages (the list and the form) in global
\* mode, and in document mode for a selected document that is ready.
FormRendered ==
    /\ ci.mounted
    /\ \/ activeTab = "global"
       \/ selectedDocument # NoDoc /\ selectedDocument.status = "ready"

\* onChange of the input, which is disabled while isLoading.
SetInput(v) ==
    /\ FormRendered
    /\ ~ci.isLoading
    /\ ci' = [ci EXCEPT !.input = v]
    /\ UNCHANGED <<docVars, chatStateMap, exchanges, answerVars>>
    /\ UNCHANGED <<agentVars, syncVars>>

\* onMessagesChange looking up the selection when it is called
WriteKeyOfCurrentSelection(x) == ActiveKey

\* The key the onMessagesChange captured by exchange x writes:
\* handleDocMessagesChange closes over the selectedDocument of the render
\* that created it, handleGlobalMessagesChange over GLOBAL_CHAT_KEY.
WriteKey(x) == x.key

\* onMessagesChange(messages, sessionId) as called by exchange x.
OnMessagesChange(map, x, messages, sessionId) ==
    IF WriteKey(x) = NoKey THEN map
    ELSE [map EXCEPT ![WriteKey(x)] = ChatState(messages, sessionId)]

\* the early returns of handleSubmit testing the input as it is typed
SubmitRejectedUntrimmed ==
    \/ ci.input = <<>>
    \/ ci.isLoading
    \/ activeTab # "global" /\ selectedDocument = NoDoc

\* The two early returns of handleSubmit.
SubmitRejected ==
    \/ Trim(ci.input) = <<>>
    \/ ci.isLoading
    \/ activeTab # "global" /\ selectedDocument = NoDoc

\* handleSubmit up to its first await (the fetch of /api/chat).  It is
\* invoked from the form, or in document mode without a document, where no
\* form is rendered and its own guard returns.
Submit ==
    /\ ci.mounted
    /\ FormRendered \/ selectedDocument = NoDoc
    /\ IF SubmitRejected
       THEN UNCHANGED vars
       ELSE LET n == Len(exchanges) + 1
                messages == MessagesProp(activeTab, selectedDocument, chatStateMap)
                userMessage == Message(2 * n - 1, "user", Trim(ci.input))
                x == [pc |-> "fetch", live |-> TRUE, key |-> ActiveKey,
                      reqKey |-> ActiveKey, sidSent |-> ci.currentSessionId,
                      msgs0 |-> messages, user |-> userMessage, aid |-> 2 * n,
                      usid |-> 0, cur |-> <<>>, body |-> <<>>, wire |-> <<>>,
                      done |-> FALSE]
            IN /\ n <= MaxSends
               /\ chatStateMap' = OnMessagesChange(chatStateMap, x,
                                     messages \o <<userMessage>>, ci.currentSessionId)
               /\ UNCHANGED <<docVars, answerVars>>
               /\ Render([ci EXCEPT !.input = <<>>, !.isLoading = TRUE, !.error = ""],
                         Append(exchanges, x))
    /\ UNCHANGED <<agentVars, syncVars>>

\* The instance after the catch and finally blocks of exchange x ran
\* (a setter of an instance that was unmounted has no effect).
AfterCatch(x, msg) ==
    IF x.live THEN [ci EXCEPT !.error = msg, !.isLoading = FALSE] ELSE ci
AfterFinallySkipped(x, c) == c
AfterFinally(x, c) ==
    IF x.live THEN [c EXCEPT !.isLoading = FALSE] ELSE c

\* The catch block's retraction: messages is the prop handleSubmit closed
\* over when it was invoked.
CatchRetract(map, x) ==
    LET messages == x.msgs0
        last == messages[Len(messages)] IN
    IF messages # <<>> /\ last.role = "assistant" /\ last.content = <<>>
    THEN OnMessagesChange(map, x, SubSeq(messages, 1, Len(messages) - 1), x.sidSent)
    ELSE map

\* fetch rejects, or the response is not ok (msg is the thrown message).
ChatFetchError(k, msg) ==
    /\ k \in DOMAIN exchanges
    /\ exchanges[k].pc = "fetch"
    /\ chatStateMap' = CatchRetract(chatStateMap, exchanges[k])
    /\ UNCHANGED <<docVars, answerVars>>
    /\ Render(AfterCatch(exchanges[k], msg),
              [exchanges EXCEPT ![k] = Finished(@)])
    /\ UNCHANGED <<agentVars, syncVars>>

\* An ok response arrives: the headers are read, the empty assistant
\* message is appended, and the read loop starts on the body.  The Answer
\* Service answers a request without a session with a new identifier, and
\* one with a session with that session's identifier (withHeader: whether
\* the response carries X-Session-Id at all).
RespondOk(k, withHeader, body) ==
    /\ k \in DOMAIN exchanges
    /\ exchanges[k].pc = "fetch"
    /\ LET x == exchanges[k]
           fresh == withHeader /\ x.sidSent = 0
           newSessionId == IF ~withHeader THEN 0
                           ELSE IF fresh THEN nextSid ELSE x.sidSent
           updatedSessionId == IF newSessionId # 0 THEN newSessionId ELSE x.sidSent
           currentMessages == (x.msgs0 \o <<x.user>>)
                                  \o <<Message(x.aid, "assistant", <<>>)>>
       IN /\ nextSid' = IF fresh THEN nextSid + 1 ELSE nextSid
          /\ issuedFor' = IF fresh THEN [issuedFor EXCEPT ![nextSid] = x.reqKey]
                          ELSE issuedFor
          /\ chatStateMap' = OnMessagesChange(chatStateMap, x, currentMessages,
                                              updatedSessionId)
          /\ UNCHANGED <<docVars, saveCalls>>
          /\ Render(IF x.live /\ newSessionId # 0
                    THEN [ci EXCEPT !.currentSessionId = updatedSessionId] ELSE ci,
                    [exchanges EXCEPT ![k] = [x EXCEPT !.pc = "read",
                                                       !.usid = updatedSessionId,
                                                       !.cur = currentMessages,
                                                       !.body = body,
                                                       !.wire = body]])
    /\ UNCHANGED <<agentVars, syncVars>>

\* reader.read() resolves with the next n pieces of the body.
ReadChunk(k, n) ==
    /\ k \in DOMAIN exchanges
    /\ exchanges[k].pc = "read"
    /\ n \in 1..Len(exchanges[k].wire)
    /\ LET x == exchanges[k]
           f == FoldChunk(x.cur, SubSeq(x.wire, 1, n), x.aid, x.usid)
           folded == IF f.changed
                     THEN OnMessagesChange(chatStateMap, x, f.cur, x.usid)
                     ELSE chatStateMap
       IN /\ saveCalls' = saveCalls \o f.saves
          /\ UNCHANGED <<docVars, nextSid, issuedFor>>
          /\ IF f.thrown = ""
             THEN /\ chatStateMap' = folded
                  /\ Render(ci, [exchanges EXCEPT ![k] =
                                   [x EXCEPT !.cur = f.cur,
                                             !.wire = SubSeq(x.wire, n + 1, Len(x.wire)),
                                             !.done = @ \/ f.done]])
             ELSE /\ chatStateMap' = CatchRetract(folded, x)
                  /\ Render(AfterCatch(x, f.thrown),
                            [exchanges EXCEPT ![k] = Finished(x)])
    /\ UNCHANGED <<agentVars, syncVars>>

\* reader.read() resolves with done: the transport closed after the body.
ReadDone(k) ==
    /\ k \in DOMAIN exchanges
    /\ exchanges[k].pc = "read"
    /\ exchanges[k].wire = <<>>
    /\ UNCHANGED <<docVars, chatStateMap, answerVars>>
    /\ Render(AfterFinally(exchanges[k], ci), [exchanges EXCEPT ![k] = Finished(@)])
    /\ UNCHANGED <<agentVars, syncVars>>

\* reader.read() rejects: the transport failed.
ReadFail(k) ==
    /\ k \in DOMAIN exchanges
    /\ exchanges[k].pc = "read"
    /\ chatStateMap' = CatchRetract(chatStateMap, exchanges[k])
    /\ UNCHANGED <<docVars, answerVars>>
    /\ Render(AfterCatch(exchanges[k], "network error"),
              [exchanges EXCEPT ![k] = Finished(@)])
    /\ UNCHANGED <<agentVars, syncVars>>

\* The fetch of /api/chat/save-response settles.  Nothing awaits it: a
\* rejection is logged by its .catch, a response of any status is dropped.
SaveSettleRetry(k, ok) ==
    /\ k \in DOMAIN saveCalls
    /\ saveCalls[k].pc = "sent"
    /\ saveCalls' = IF ok THEN [saveCalls EXCEPT ![k].pc = "ok"]
                    ELSE Append([saveCalls EXCEPT ![k].pc = "failed"],
                                [saveCalls[k] EXCEPT !.pc = "sent"])
    /\ UNCHANGED <<docVars, chatStateMap, ci, exchanges, nextSid, issuedFor, agentVars, syncVars>>
SaveSettle(k, ok) ==
    /\ k \in DOMAIN saveCalls
    /\ saveCalls[k].pc = "sent"
    /\ saveCalls' = [saveCalls EXCEPT ![k].pc = IF ok THEN "ok" ELSE "failed"]
    /\ UNCHANGED <<docVars, chatStateMap, ci, exchanges, nextSid, issuedFor, agentVars, syncVars>>

(* ------------------------------------------------------------------------ *)
(* AgentChat                                                                *)
(* ------------------------------------------------------------------------ *)
\* useState values of an AgentChat and its sessionId ref; ctx stands for the
\* props sessionKey and document of its last render, drawn for the number of
\* session identifiers drawn so far (each one is fresh).
Agent(present, ctx, msgs, input, thinking, err, sessionId, drawn) ==
    [present |-> present, ctx |-> ctx, msgs |-> msgs, input |-> input,
     thinking |-> thinking, err |-> err, sessionId |-> sessionId, drawn |-> drawn]
NoAgent == Agent(FALSE, NoKey, <<>>, <<>>, FALSE, "", 0, 0)

AgentMessage(role, text) == [role |-> role, text |-> text]
\* the welcome message, whose text names the document of the context
Welcome(c) == AgentMessage("assistant", <<"welcome", c>>)
\* d.text || the fallback text
AnswerText(text) == IF text = <<>> THEN <<"no answer">> ELSE text

\* The page of AgentChat (selectDoc, the mode buttons, deleteDoc) renders it
\* for another context c, a document or "global".  Both AgentChat elements
\* sit at the same position, so the instance survives and its reset effect
\* runs: a fresh session, the welcome message, no error, an empty input.
AgentShow(c) ==
    /\ agent.present
    /\ c # agent.ctx
    /\ agent.drawn < MaxAgentSessions
    /\ agent' = [agent EXCEPT !.ctx = c,
                              !.sessionId = agent.drawn + 1,
                              !.drawn = agent.drawn + 1,
                              !.msgs = <<Welcome(c)>>,
                              !.err = "",
                              !.input = <<>>]
    /\ UNCHANGED <<syncVars, docVars, chatVars, agentCalls>>

\* onChange of the textarea, which is disabled while thinking.
AgentSetInput(v) ==
    /\ agent.present
    /\ ~agent.thinking
    /\ agent' = [agent EXCEPT !.input = v]
    /\ UNCHANGED <<syncVars, docVars, chatVars, agentCalls>>

\* The early return of send.
sendRejected == Trim(agent.input) = <<>> \/ agent.thinking

\* send up to its first await (the fetch of /api/agent).
send ==
    /\ agent.present
    /\ IF sendRejected
       THEN UNCHANGED vars
       ELSE /\ Len(agentCalls) < MaxAgentSends
            /\ agent' = [agent EXCEPT
                           !.msgs = Append(@, AgentMessage("user", Trim(agent.input))),
                           !.input = <<>>, !.thinking = TRUE, !.err = ""]
            /\ agentCalls' = Append(agentCalls,
                                [pc |-> "fetch", sessionId |-> agent.sessionId,
                                 ctx |-> agent.ctx])
            /\ UNCHANGED <<syncVars, docVars, chatVars>>

\* The response arrives and r.json() resolves: an ok response appends the
\* assistant message, another one throws the message detail; then finally.
AgentResponse(k, ok, text, detail) ==
    /\ k \in DOMAIN agentCalls
    /\ agentCalls[k].pc = "fetch"
    /\ agent' =
         IF ok
         THEN [agent EXCEPT
                 !.msgs = Append(@, AgentMessage("assistant", AnswerText(text))),
                 !.thinking = FALSE]
         ELSE [agent EXCEPT !.err = detail, !.thinking = FALSE]
    /\ agentCalls' = [agentCalls EXCEPT ![k].pc = "done"]
    /\ UNCHANGED <<syncVars, docVars, chatVars>>

\* fetch rejects, or r.json() rejects: catch, then finally.
AgentFail(k, detail) ==
    /\ k \in DOMAIN agentCalls
    /\ agentCalls[k].pc = "fetch"
    /\ agent' = [agent EXCEPT !.err = detail, !.thinking = FALSE]
    /\ agentCalls' = [agentCalls EXCEPT ![k].pc = "done"]
    /\ UNCHANGED <<syncVars, docVars, chatVars>>

\* clear: a fresh session and the welcome message alone.
clear ==
    /\ agent.present
    /\ agent.drawn < MaxAgentSessions
    /\ agent' = [agent EXCEPT !.sessionId = agent.drawn + 1,
                              !.drawn = agent.drawn + 1,
                              !.msgs = <<Welcome(agent.ctx)>>,
                              !.err = ""]
    /\ UNCHANGED <<syncVars, docVars, chatVars, agentCalls>>

(* ------------------------------------------------------------------------ *)
(* SyncSourcePanel                                                          *)
(* ------------------------------------------------------------------------ *)
SourceIds == 1..MaxSources
SyncSource(id, is_connected, oauth_token) ==
    [id |-> id, is_connected |-> is_connected, oauth_token |-> oauth_token,
     status |-> "idle"]
\* the list of a service on which every source is connected and holds its
\* credential
ConnectedSources == [i \in SourceIds |-> SyncSource(i, TRUE, "token")]

BrowseFile(name, path) == [name |-> name, path |-> path]
\* The disk behind every source: the root holds the folder /d and the files
\* a and b, the folder /d holds a file named a too.
Listing(path) ==
    IF path = "/"
    THEN [folders |-> <<"/d">>,
          files |-> <<BrowseFile("a", "/a"), BrowseFile("b", "/b")>>]
    ELSE [folders |-> <<>>, files |-> <<BrowseFile("a", "/d/a")>>]
\* navigateUp: the path without its last part
ParentPath(path) == "/"
\* getBreadcrumbs(path): the paths of the crumbs
Breadcrumbs(path) == IF path = "/" THEN {"/"} ELSE {"/", path}

\* useState of SyncSourcePanel; browseSourceId 0 is null.
Panel ==
    [apiOk |-> TRUE,
     step |-> "idle", codeInput |-> <<>>, exchanging |-> FALSE, authError |-> "",
     authToken |-> "", authUser |-> "",
     fName |-> <<>>, fPath |-> <<>>, creating |-> FALSE,
     browseSourceId |-> 0, browsePath |-> "/", browseFolders |-> <<>>,
     browseFiles |-> <<>>, browseLoading |-> FALSE, browseError |-> "",
     selectedFiles |-> {}, importingFiles |-> {}]

\* A request under way: an exchange of a code, a directory load, or an
\* import (batch is the invocation of importSelected that issued it, 0 for
\* the import button of a file; token is the credential it sends).
SyncCall(kind, source, path, name, token, batch) ==
    [kind |-> kind, source |-> source, path |-> path, name |-> name,
     token |-> token, batch |-> batch]

\* existingDocuments.some(d => d.original_filename === fileName && d.status !== "failed")
isFileInSystemAnyStatus(fileName) ==
    \E k \in DOMAIN documents : docNames[documents[k].id] = fileName
isFileInSystem(fileName) ==
    \E k \in DOMAIN documents :
        docNames[documents[k].id] = fileName /\ documents[k].status # "failed"

\* --- what is rendered ---
SourceShown(s) ==
    sync.step = "idle" /\ \E k \in DOMAIN sources : sources[k].id = s
SourceOf(s) == sources[CHOOSE k \in DOMAIN sources : sources[k].id = s]
BrowserShown(s) ==
    SourceShown(s) /\ sync.browseSourceId = s /\ SourceOf(s).is_connected
FileListShown(s) ==
    /\ BrowserShown(s)
    /\ ~sync.browseLoading
    /\ sync.browseError = ""
    /\ sync.browseFolders # <<>> \/ sync.browseFiles # <<>>
FooterShown(s) ==
    BrowserShown(s) /\ sync.browseFiles # <<>> /\ ~sync.browseLoading
\* the checkbox of a file of the list: disabled={inSystem}
CheckboxDisabled(file) == isFileInSystem(file.name)
\* the import button of a file of the list is rendered
ImportButtonShown(file) ==
    ~isFileInSystem(file.name) /\ file.path \notin sync.importingFiles

\* Every action of the panel leaves Home and the chat as they are, but for
\* the imports, which register documents.
PanelOnly ==
    /\ UNCHANGED <<docVars, chatVars, agentVars, sources, serverSources, docNames>>

\* --- authorization ---
startNewConnection ==
    /\ sync.step = "idle"
    /\ sync' = [sync EXCEPT !.step = "auth", !.codeInput = <<>>, !.authError = "",
                            !.authToken = "", !.authUser = ""]
    /\ UNCHANGED <<syncCalls, batches>>
    /\ PanelOnly

SetCodeInput(v) ==
    /\ sync.step = "auth"
    /\ sync' = [sync EXCEPT !.codeInput = v, !.authError = ""]
    /\ UNCHANGED <<syncCalls, batches>>
    /\ PanelOnly

\* submitCode up to its fetch; the button is disabled while exchanging, the
\* Enter key of the input is not.
submitCode ==
    /\ sync.step = "auth"
    /\ IF Trim(sync.codeInput) = <<>>
       THEN UNCHANGED vars
       ELSE /\ Len(syncCalls) < MaxSyncCalls
            /\ sync' = [sync EXCEPT !.exchanging = TRUE, !.authError = ""]
            /\ syncCalls' = Append(syncCalls, SyncCall("exchange", 0, "", "", "", 0))
            /\ UNCHANGED batches
            /\ PanelOnly

\* The panel after an exchange that did not succeed: detail is the
\* provider's detail ("" when it gives none), thrown whether fetch or
\* r.json() threw.
ExchangeFailedAdvances(p, detail, thrown) ==
    [p EXCEPT !.step = "form", !.authToken = "token", !.exchanging = FALSE]
ExchangeFailed(p, detail, thrown) ==
    [p EXCEPT !.authError = IF thrown THEN "server unavailable"
                            ELSE IF detail # "" THEN detail ELSE "invalid code",
              !.exchanging = FALSE]

\* The answer to the exchange arrives (success: r.ok && data.success).
ExchangeResponse(k, success, detail, thrown) ==
    /\ k \in DOMAIN syncCalls
    /\ syncCalls[k].kind = "exchange"
    /\ sync' = IF success
               THEN [sync EXCEPT !.authToken = "token", !.authUser = "user",
                                 !.fName = <<>>, !.fPath = <<>>,
                                 !.step = "form", !.exchanging = FALSE]
               ELSE ExchangeFailed(sync, detail, thrown)
    /\ syncCalls' = RemoveAt(syncCalls, k)
    /\ UNCHANGED batches
    /\ PanelOnly

cancelAll ==
    /\ sync.step # "idle"
    /\ sync' = [sync EXCEPT !.step = "idle", !.authToken = "", !.authUser = "",
                            !.authError = "", !.codeInput = <<>>]
    /\ UNCHANGED <<syncCalls, batches>>
    /\ PanelOnly

\* --- the list of sources ---
\* loadSources up to its fetch, from panel p with the requests calls under way
loadSources(calls) == Append(calls, SyncCall("sources", 0, "", "", "", 0))

\* the 10 s interval of the mount effect calls loadSources
LoadSourcesTick ==
    /\ Len(syncCalls) < MaxSyncCalls
    /\ syncCalls' = loadSources(syncCalls)
    /\ UNCHANGED <<sync, batches>>
    /\ PanelOnly

\* The answer to GET /api/sync-sources arrives.
SourcesResponse(k, ok) ==
    /\ k \in DOMAIN syncCalls
    /\ syncCalls[k].kind = "sources"
    /\ sync' = [sync EXCEPT !.apiOk = ok]
    /\ sources' = IF ok THEN serverSources ELSE sources
    /\ syncCalls' = RemoveAt(syncCalls, k)
    /\ UNCHANGED <<docVars, chatVars, agentVars, serverSources, batches, docNames>>

\* --- manual sync and disconnect ---
\* the sync button of a source card: rendered for a connected source,
\* disabled while its status is syncing
handleSync(s) ==
    /\ SourceShown(s)
    /\ SourceOf(s).is_connected
    /\ SourceOf(s).status # "syncing"
    /\ Len(syncCalls) < MaxSyncCalls
    /\ syncCalls' = Append(syncCalls, SyncCall("sync", s, "", "", "", 0))
    /\ UNCHANGED <<sync, batches>>
    /\ PanelOnly

\* the disconnect button of a source card
handleDisconnect(s) ==
    /\ SourceShown(s)
    /\ SourceOf(s).is_connected
    /\ Len(syncCalls) < MaxSyncCalls
    /\ syncCalls' = Append(syncCalls, SyncCall("disconnect", s, "", "", "", 0))
    /\ UNCHANGED <<sync, batches>>
    /\ PanelOnly

\* The provider carries out a trigger it accepted: a sync turns the source's
\* status to syncing, a disconnect takes its connection and its credential.
Triggered(srcs, c) ==
    [k \in DOMAIN srcs |->
        IF srcs[k].id # c.source THEN srcs[k]
        ELSE IF c.kind = "sync" THEN [srcs[k] EXCEPT !.status = "syncing"]
        ELSE [srcs[k] EXCEPT !.is_connected = FALSE, !.oauth_token = ""]]

\* The local list after handleSync or handleDisconnect got its answer: neither
\* handler calls setSources.
TriggerSettledOptimistic(srcs, c) == Triggered(srcs, c)

TriggerSettled(srcs, c) == srcs

\* The answer to a trigger arrives (accepted: the provider carried it out;
\* thrown: fetch rejected, possibly after the provider carried it out).  Any
\* response, ok or not, is followed by loadSources, after 500 ms for a sync.
TriggerResponse(k, accepted, thrown) ==
    /\ k \in DOMAIN syncCalls
    /\ syncCalls[k].kind \in {"sync", "disconnect"}
    /\ serverSources' = IF accepted THEN Triggered(serverSources, syncCalls[k])
                        ELSE serverSources
    /\ sources' = TriggerSettled(sources, syncCalls[k])
    /\ syncCalls' = IF thrown THEN RemoveAt(syncCalls, k)
                    ELSE IF syncCalls[k].kind = "sync"
                    THEN Append(RemoveAt(syncCalls, k), SyncCall("timer", 0, "", "", "", 0))
                    ELSE loadSources(RemoveAt(syncCalls, k))
    /\ UNCHANGED <<docVars, chatVars, agentVars, sync, batches, docNames>>

\* setTimeout(loadSources, 500) of handleSync fires
SyncTimerFires(k) ==
    /\ k \in DOMAIN syncCalls
    /\ syncCalls[k].kind = "timer"
    /\ syncCalls' = loadSources(RemoveAt(syncCalls, k))
    /\ UNCHANGED <<sync, batches>>
    /\ PanelOnly

\* The provider ends the sync of a source.
ServerSyncDone(s, st) ==
    /\ \E k \in DOMAIN serverSources :
          /\ serverSources[k].id = s
          /\ serverSources[k].status = "syncing"
          /\ serverSources' = [serverSources EXCEPT ![k].status = st]
    /\ UNCHANGED <<docVars, chatVars, agentVars, sync, sources, syncCalls, batches,
                   docNames>>

\* --- the new source ---
SetFName(v) ==
    /\ sync.step = "form"
    /\ sync' = [sync EXCEPT !.fName = v]
    /\ UNCHANGED <<syncCalls, batches>>
    /\ PanelOnly

SetFPath(v) ==
    /\ sync.step = "form"
    /\ sync' = [sync EXCEPT !.fPath = v]
    /\ UNCHANGED <<syncCalls, batches>>
    /\ PanelOnly

\* handleCreate up to its fetch (its button is disabled while creating)
handleCreate ==
    /\ sync.step = "form"
    /\ ~sync.creating
    /\ IF Trim(sync.fName) = <<>> \/ Trim(sync.fPath) = <<>> \/ sync.authToken = ""
       THEN UNCHANGED vars
       ELSE /\ Len(syncCalls) < MaxSyncCalls
            /\ sync' = [sync EXCEPT !.creating = TRUE]
            /\ syncCalls' = Append(syncCalls,
                                   SyncCall("create", 0, "", "", sync.authToken, 0))
            /\ UNCHANGED batches
            /\ PanelOnly

\* handleCreate after its await: the panel once the request is over.
CreateSettledAlwaysIdle(p, ok) ==
    [p EXCEPT !.step = "idle", !.authToken = "", !.authUser = "", !.creating = FALSE]

CreateSettled(p, ok) ==
    IF ok THEN [p EXCEPT !.step = "idle", !.authToken = "", !.authUser = "",
                         !.creating = FALSE]
    ELSE [p EXCEPT !.creating = FALSE]

\* The answer to POST /api/sync-sources arrives; an accepted request created
\* the source on the provider's side.
CreateResponse(k, ok) ==
    /\ k \in DOMAIN syncCalls
    /\ syncCalls[k].kind = "create"
    /\ ok => Len(serverSources) < MaxSources
    /\ serverSources' =
          IF ok THEN Append(serverSources,
                            SyncSource(Len(serverSources) + 1, TRUE, syncCalls[k].token))
          ELSE serverSources
    /\ sync' = CreateSettled(sync, ok)
    /\ syncCalls' = IF ok THEN loadSources(RemoveAt(syncCalls, k))
                    ELSE RemoveAt(syncCalls, k)
    /\ UNCHANGED <<docVars, chatVars, agentVars, sources, batches, docNames>>

\* --- the file browser ---
closeBrowserStaysOpen(p) == [p EXCEPT !.selectedFiles = {}]

closeBrowser(p) ==
    [p EXCEPT !.browseSourceId = 0, !.browseFolders = <<>>, !.browseFiles = <<>>,
              !.browseError = "", !.selectedFiles = {}]

\* loadFolder(source, path) up to its fetch, from panel p.
loadFolder(p, s, path) ==
    LET token == IF SourceOf(s).oauth_token # "" THEN SourceOf(s).oauth_token
                 ELSE sync.authToken IN
    IF token = ""
    THEN /\ sync' = p
         /\ UNCHANGED syncCalls
    ELSE /\ Len(syncCalls) < MaxSyncCalls
         /\ sync' = [p EXCEPT !.browseLoading = TRUE, !.browseError = "",
                              !.browseFolders = <<>>, !.browseFiles = <<>>,
                              !.selectedFiles = {}]
         /\ syncCalls' = Append(syncCalls, SyncCall("browse", s, path, "", token, 0))

openBrowser(s) ==
    /\ SourceShown(s)
    /\ SourceOf(s).is_connected
    /\ IF sync.browseSourceId = s
       THEN /\ sync' = closeBrowser(sync)
            /\ UNCHANGED syncCalls
       ELSE loadFolder([sync EXCEPT !.browseSourceId = s, !.browsePath = "/",
                                    !.selectedFiles = {}], s, "/")
    /\ UNCHANGED batches
    /\ PanelOnly

\* a folder of the list, or a crumb of the breadcrumb bar (which is
\* rendered while loading too)
navigateToFolder(s, path) ==
    /\ \/ FileListShown(s) /\ \E k \in DOMAIN sync.browseFolders :
                                 sync.browseFolders[k] = path
       \/ BrowserShown(s) /\ path \in Breadcrumbs(sync.browsePath)
    /\ loadFolder(sync, s, path)
    /\ UNCHANGED batches
    /\ PanelOnly

navigateUp(s) ==
    /\ BrowserShown(s)
    /\ sync.browsePath # "/"
    /\ loadFolder(sync, s, ParentPath(sync.browsePath))
    /\ UNCHANGED batches
    /\ PanelOnly

\* The panel after a directory load that did not succeed.
LoadFailed(p, detail, thrown) ==
    [p EXCEPT !.browseError = IF thrown THEN "load failed"
                              ELSE IF detail # "" THEN detail ELSE "load error",
              !.browseLoading = FALSE]

\* The answer to the directory load arrives.
BrowseResponse(k, ok, detail, thrown) ==
    /\ k \in DOMAIN syncCalls
    /\ syncCalls[k].kind = "browse"
    /\ sync' = IF ok
               THEN [sync EXCEPT !.browseFolders = Listing(syncCalls[k].path).folders,
                                 !.browseFiles = Listing(syncCalls[k].path).files,
                                 !.browsePath = syncCalls[k].path,
                                 !.browseLoading = FALSE]
               ELSE LoadFailed(sync, detail, thrown)
    /\ syncCalls' = RemoveAt(syncCalls, k)
    /\ UNCHANGED batches
    /\ PanelOnly

toggleFileSelection(s, f) ==
    /\ FileListShown(s)
    /\ f \in DOMAIN sync.browseFiles
    /\ ~CheckboxDisabled(sync.browseFiles[f])
    /\ LET filePath == sync.browseFiles[f].path IN
         sync' = [sync EXCEPT !.selectedFiles =
                     IF filePath \in @ THEN @ \ {filePath} ELSE @ \cup {filePath}]
    /\ UNCHANGED <<syncCalls, batches>>
    /\ PanelOnly

RECURSIVE SelectSeq2(_, _)
\* browseFiles.filter(f => keep(f))
SelectSeq2(files, keep) ==
    IF files = <<>> THEN <<>>
    ELSE (IF keep[Head(files).path] THEN <<Head(files)>> ELSE <<>>)
         \o SelectSeq2(Tail(files), keep)
PathsOf(files) == {files[k].path : k \in DOMAIN files}
AllPaths == {"/a", "/b", "/d/a"}

selectAll(s) ==
    /\ FooterShown(s)
    /\ LET importable == SelectSeq2(sync.browseFiles,
                            [q \in AllPaths |->
                                \E k \in DOMAIN sync.browseFiles :
                                    /\ sync.browseFiles[k].path = q
                                    /\ ~isFileInSystem(sync.browseFiles[k].name)])
       IN sync' = [sync EXCEPT !.selectedFiles =
                      IF Cardinality(@) = Len(importable) /\ Len(importable) > 0
                      THEN {} ELSE PathsOf(importable)]
    /\ UNCHANGED <<syncCalls, batches>>
    /\ PanelOnly

\* getSourceToken(sourceId)
getSourceToken(s) ==
    IF (\E k \in DOMAIN sources : sources[k].id = s) /\ SourceOf(s).oauth_token # ""
    THEN SourceOf(s).oauth_token
    ELSE sync.authToken

\* An invocation of importSelected: the files it imports, the position of
\* the file whose import it awaits (Len(files) + 1 once it returned), the
\* credential its closure reads, and the documents its imports registered.
Batch(source, files, pos, token, made) ==
    [source |-> source, files |-> files, pos |-> pos, token |-> token, made |-> made]

\* importSingleFile(sourceId, file) up to its fetch, from panel p with the
\* requests calls under way: the panel and the requests afterwards.
importSingleFile(p, calls, s, file, token, b) ==
    IF token = "" THEN [p |-> p, calls |-> calls]
    ELSE [p |-> [p EXCEPT !.importingFiles = @ \cup {file.path}],
          calls |-> Append(calls, SyncCall("import", s, file.path, file.name, token, b))]

\* the import button of a file
ImportFile(s, f) ==
    /\ FileListShown(s)
    /\ f \in DOMAIN sync.browseFiles
    /\ ImportButtonShown(sync.browseFiles[f])
    /\ Len(syncCalls) < MaxSyncCalls
    /\ LET r == importSingleFile(sync, syncCalls, s, sync.browseFiles[f],
                                 getSourceToken(s), 0)
       IN sync' = r.p /\ syncCalls' = r.calls
    /\ UNCHANGED batches
    /\ PanelOnly

\* for (const file of filesToImport) { await importSingleFile(sourceId, file); }
\* the positions whose request is sent before the loop first suspends, were
\* the imports not awaited
NotAwaited(files, pos) == pos..Len(files)
\* the positions whose request is sent before the loop suspends at pos
Awaited(files, pos) == IF pos <= Len(files) THEN {pos} ELSE {}

RECURSIVE ImportEach(_, _, _, _, _, _)
\* importSingleFile for the files at the positions todo, in order
ImportEach(p, calls, files, todo, bt, b) ==
    IF todo = {} THEN [p |-> p, calls |-> calls]
    ELSE LET n == CHOOSE m \in todo : \A o \in todo : m <= o
             r == importSingleFile(p, calls, bt.source, files[n], bt.token, b)
         IN ImportEach(r.p, r.calls, files, todo \ {n}, bt, b)

\* The loop of importSelected at position pos (pos = 1 when it is invoked,
\* pos + 1 when the import it awaited has completed): the next import is
\* started, or the loop ends and the selection is cleared.  Without a
\* credential every importSingleFile returns at once.
ImportLoop(p, calls, bs, b, pos) ==
    LET bt == bs[b] IN
    IF pos > Len(bt.files) \/ bt.token = ""
    THEN [p |-> [p EXCEPT !.selectedFiles = {}], calls |-> calls,
          bs |-> [bs EXCEPT ![b].pos = Len(bt.files) + 1]]
    ELSE LET r == ImportEach(p, calls, bt.files, Awaited(bt.files, pos), bt, b)
         IN [p |-> r.p, calls |-> r.calls, bs |-> [bs EXCEPT ![b].pos = pos]]

importSelected(s) ==
    /\ FooterShown(s)
    /\ sync.selectedFiles # {}
    /\ Len(batches) < MaxBatches
    /\ Len(syncCalls) < MaxSyncCalls
    /\ LET filesToImport == SelectSeq2(sync.browseFiles,
                               [q \in AllPaths |-> q \in sync.selectedFiles])
           b == Len(batches) + 1
           r == ImportLoop(sync, syncCalls,
                           Append(batches, Batch(s, filesToImport, 1,
                                                 getSourceToken(s), <<>>)), b, 1)
       IN sync' = r.p /\ syncCalls' = r.calls /\ batches' = r.bs
    /\ UNCHANGED <<docVars, chatVars, agentVars, sources, serverSources, docNames>>

\* setImportingFiles after the try/catch of importSingleFile: next.delete(file.path),
\* whatever the outcome of the request was.
ClearImportingInTry(p, path, ok) ==
    IF ok THEN [p EXCEPT !.importingFiles = @ \ {path}] ELSE p

ClearImporting(p, path, ok) == [p EXCEPT !.importingFiles = @ \ {path}]

\* The answer to an import arrives.  An accepted import created the document
\* on the service (id is its identifier; withId: whether the answer carries
\* document_id); the panel registers it with Home and, in a batch, goes on
\* with the next file.
ImportResponse(k, ok, withId) ==
    /\ k \in DOMAIN syncCalls
    /\ syncCalls[k].kind = "import"
    /\ LET c == syncCalls[k]
           free == {i \in DocIds : serverDocs[i] = "absent"}
           id == CHOOSE i \in free : \A j \in free : i <= j
           registers == ok /\ withId
           p1 == ClearImporting(sync, c.path, ok)
           bs1 == IF registers /\ c.batch # 0
                  THEN [batches EXCEPT ![c.batch].made = Append(@, id)]
                  ELSE batches
           r == IF c.batch = 0
                THEN [p |-> p1, calls |-> RemoveAt(syncCalls, k), bs |-> bs1]
                ELSE ImportLoop(p1, RemoveAt(syncCalls, k), bs1, c.batch,
                                batches[c.batch].pos + 1)
       IN /\ ok => free # {}
          /\ ~ok => ~withId
          /\ IF ok
             THEN /\ serverDocs' = [serverDocs EXCEPT ![id] = "processing"]
                  /\ docNames' = [docNames EXCEPT ![id] = c.name]
             ELSE UNCHANGED <<serverDocs, docNames>>
          /\ IF registers
             THEN handleDocumentUploaded(Doc(id, "processing", "none"))
             ELSE UNCHANGED <<documents, selectedDocument>>
          /\ sync' = r.p
          /\ syncCalls' = r.calls
          /\ batches' = r.bs
    /\ UNCHANGED <<activeTab, listFetch, homePolls, uzProcessing, uzPolls, uploads,
                   deletes>>
    /\ UNCHANGED <<chatStateMap, answerVars>>
    /\ Render(ci, exchanges)
    /\ UNCHANGED <<agentVars, sources, serverSources>>

(* ------------------------------------------------------------------------ *)
(* Response bodies the Answer Service may send                              *)
(* ------------------------------------------------------------------------ *)
\* a frame whose JSON text lacks its closing brace
BadFrame == Prefix \o <<"{content:a", "\n", "\n">>
FrameSet == {Frame(o) : o \in JsonOpen} \cup {BadFrame}

\* the bodies of exactly n frames
RECURSIVE BodiesOf(_)
BodiesOf(n) ==
    IF n = 0 THEN {<<>>}
    ELSE {b \o f : b \in BodiesOf(n - 1), f \in FrameSet}

\* the answers status(thinking), content d1, ..., content dn, done
ContentFrames == {Frame("{content:a"), Frame("{content:Analyzing documents...")}
RECURSIVE DeltasOf(_)
DeltasOf(n) ==
    IF n = 0 THEN {<<>>}
    ELSE {b \o f : b \in DeltasOf(n - 1), f \in ContentFrames}
Answers ==
    {(Frame("{status:thinking") \o d) \o Frame("{done:true") :
        d \in UNION {DeltasOf(n) : n \in 0..MaxDeltas}}

Bodies == UNION {BodiesOf(n) : n \in 0..MaxFrames} \cup Answers
\* the pieces of the longest body
MaxBodyLen ==
    FrameLen * (IF MaxFrames > MaxDeltas + 2 THEN MaxFrames ELSE MaxDeltas + 2)

(* ------------------------------------------------------------------------ *)
(* Specification of the Document Lifecycle Tracker                          *)
(* ------------------------------------------------------------------------ *)
\* Home on a service without documents, its initial load at stage lf.
HomeMounted(lf) ==
    /\ documents = <<>>
    /\ selectedDocument = NoDoc
    /\ activeTab = "upload"
    /\ serverDocs = [i \in DocIds |-> "absent"]
    /\ listFetch = lf
    /\ homePolls = <<>>
    /\ uzProcessing = <<>>
    /\ uzPolls = <<>>
    /\ uploads = <<>>
    /\ deletes = <<>>
    /\ chatStateMap = [k \in Keys |-> NoChat]
    /\ ci = Unmounted
    /\ exchanges = <<>>
    /\ nextSid = 1
    /\ issuedFor = [i \in 1..MaxSends |-> NoKey]
    /\ saveCalls = <<>>
    /\ agentCalls = <<>>
    /\ sync = Panel
    /\ sources = <<>>
    /\ serverSources = <<>>
    /\ syncCalls = <<>>
    /\ batches = <<>>
    /\ docNames = [i \in DocIds |-> ""]

\* Home on a service without documents, its initial load done.
HomeEmpty == HomeMounted(LoadDone)

\* The page with ChatInterface after its initial load returned an empty list.
InitDocs ==
    /\ HomeEmpty
    /\ agent = NoAgent

NextDocs ==
    \/ \E i \in DocIds, st \in Terminal : ServerFinish(i, st)
    \/ \E i \in DocIds : UploadRequest(i)
    \/ \E k \in 1..MaxDocs : UploadResponse(k)
    \/ HomeTick
    \/ \E c \in 1..MaxPolls : HomePollFetch(c)
    \/ \E c \in 1..MaxPolls : HomePollFail(c)
    \/ \E c \in 1..MaxPolls : HomePollResponse(c)
    \/ UploadZoneTick
    \/ \E c \in 1..MaxPolls : UploadZonePollFetch(c)
    \/ \E c \in 1..MaxPolls : UploadZonePollFail(c)
    \/ \E c \in 1..MaxPolls : UploadZonePollResponse(c)
    \/ \E k \in 1..MaxDocs : handleSelectDocument(k)
    \/ \E k \in 1..MaxDocs : handleDelete(k, TRUE)
    \/ \E d \in 1..MaxDeletes : handleDeleteFail(d)
    \/ \E d \in 1..MaxDeletes : handleDeleteDocument(d)

SpecDocs == InitDocs /\ [][NextDocs]_vars

(* ------------------------------------------------------------------------ *)
(* Specification of the initial load next to uploads                        *)
(* ------------------------------------------------------------------------ *)
\* Home right after mounting: fetchDocuments has sent its request.  The
\* upload zone is rendered from the first render on.
InitLoad ==
    /\ HomeMounted(ListFetch("pending", <<>>))
    /\ agent = NoAgent

NextLoad ==
    \/ FetchDocumentsAnswer
    \/ FetchDocumentsResponse
    \/ FetchDocumentsFail
    \/ \E i \in DocIds, st \in Terminal : ServerFinish(i, st)
    \/ \E i \in DocIds : UploadRequest(i)
    \/ \E k \in 1..MaxDocs : UploadResponse(k)
    \/ HomeTick
    \/ \E c \in 1..MaxPolls : HomePollFetch(c)
    \/ \E c \in 1..MaxPolls : HomePollFail(c)
    \/ \E c \in 1..MaxPolls : HomePollResponse(c)
    \/ \E k \in 1..MaxDocs : handleSelectDocument(k)

SpecLoad == InitLoad /\ [][NextLoad]_vars

(* ------------------------------------------------------------------------ *)
(* Specification of the status polls under fair scheduling                  *)
(* ------------------------------------------------------------------------ *)
\* Uploads and the two polling loops, without deletion and selection.
NextPoll ==
    \/ \E i \in DocIds, st \in Terminal : ServerFinish(i, st)
    \/ \E i \in DocIds : UploadRequest(i)
    \/ \E k \in 1..MaxDocs : UploadResponse(k)
    \/ HomeTick
    \/ \E c \in 1..MaxPolls : HomePollFetch(c)
    \/ \E c \in 1..MaxPolls : HomePollFail(c)
    \/ \E c \in 1..MaxPolls : HomePollResponse(c)
    \/ UploadZoneTick
    \/ \E c \in 1..MaxPolls : UploadZonePollFetch(c)
    \/ \E c \in 1..MaxPolls : UploadZonePollFail(c)
    \/ \E c \in 1..MaxPolls : UploadZonePollResponse(c)

\* the query of Home's loop for document i is answered by the service
HomeQueryAnswered(i) ==
    \E c \in 1..MaxPolls :
        /\ c \in DOMAIN homePolls
        /\ Head(homePolls[c].todo) = i
        /\ HomePollFetch(c)

\* setInterval keeps firing while the effect has armed it, a response that
\* arrived is handled, and of the queries for a document, which a tick makes
\* again and again, not all fail.
PollFairness ==
    /\ WF_vars(HomeTick)
    /\ \A c \in 1..MaxPolls : WF_vars(HomePollResponse(c))
    /\ \A i \in DocIds : SF_vars(HomeQueryAnswered(i))

SpecPoll == InitDocs /\ [][NextPoll]_vars /\ PollFairness

(* ------------------------------------------------------------------------ *)
(* Specification of the Chat Session Multiplexer: several contexts          *)
(* ------------------------------------------------------------------------ *)
\* The page on a service that holds MaxDocs ready documents, after its
\* initial load: the list is loaded, the first ready document is selected
\* and the chat tab is shown.
ReadyList == [k \in 1..MaxDocs |-> Doc(MaxDocs + 1 - k, "ready", "none")]
InitChat ==
    /\ documents = ReadyList
    /\ selectedDocument = FindReady(ReadyList)
    /\ activeTab = "chat"
    /\ serverDocs = [i \in DocIds |-> "ready"]
    /\ listFetch = LoadDone
    /\ homePolls = <<>>
    /\ uzProcessing = <<>>
    /\ uzPolls = <<>>
    /\ uploads = <<>>
    /\ deletes = <<>>
    /\ chatStateMap = [k \in Keys |-> NoChat]
    /\ ci = Instance(TRUE, <<>>, FALSE, 0, "", 0)
    /\ exchanges = <<>>
    /\ nextSid = 1
    /\ issuedFor = [i \in 1..MaxSends |-> NoKey]
    /\ saveCalls = <<>>
    /\ agent = NoAgent
    /\ agentCalls = <<>>
    /\ sync = Panel
    /\ sources = <<>>
    /\ serverSources = <<>>
    /\ syncCalls = <<>>
    /\ batches = <<>>
    /\ docNames = [i \in DocIds |-> UploadedName]

\* Bodies of this specification: an answer, and an error frame; each body
\* arrives as one chunk.
ChatBodies == {Frame("{content:a") \o Frame("{done:true"), Frame("{error:boom")}

NextChat ==
    \/ \E t \in {"upload", "chat", "global"} : SetActiveTab(t)
    \/ \E k \in 1..MaxDocs : handleSelectDocument(k)
    \/ \E k \in 1..MaxDocs : handleDelete(k, TRUE)
    \/ \E d \in 1..MaxDeletes : handleDeleteDocument(d)
    \/ SetInput(<<"q">>)
    \/ Submit
    \/ \E k \in 1..MaxSends, body \in ChatBodies : RespondOk(k, TRUE, body)
    \/ \E k \in 1..MaxSends : ReadChunk(k, Len(exchanges[k].wire))
    \/ \E k \in 1..MaxSends : ReadDone(k)

SpecChat == InitChat /\ [][NextChat]_vars

(* ------------------------------------------------------------------------ *)
(* Specification of deletion next to conversations                          *)
(* ------------------------------------------------------------------------ *)
\* As SpecChat, with deletes that the service rejects or whose response is
\* lost, and with answers only.
DeleteBodies == {Frame("{content:a") \o Frame("{done:true")}

NextDelete ==
    \/ \E t \in {"upload", "chat", "global"} : SetActiveTab(t)
    \/ \E k \in 1..MaxDocs : handleSelectDocument(k)
    \/ \E k \in 1..MaxDocs, ok \in BOOLEAN : handleDelete(k, ok)
    \/ \E d \in 1..MaxDeletes : handleDeleteFail(d)
    \/ \E d \in 1..MaxDeletes : handleDeleteDocument(d)
    \/ SetInput(<<"q">>)
    \/ Submit
    \/ \E k \in 1..MaxSends, body \in DeleteBodies : RespondOk(k, TRUE, body)
    \/ \E k \in 1..MaxSends : ReadChunk(k, Len(exchanges[k].wire))
    \/ \E k \in 1..MaxSends : ReadDone(k)

SpecDelete == InitChat /\ [][NextDelete]_vars

(* ------------------------------------------------------------------------ *)
(* Specification of one exchange and its stream, piece by piece             *)
(* ------------------------------------------------------------------------ *)
\* Either page of the repository on a service without documents: the page
\* with ChatInterface, or the page with AgentChat, which starts in global
\* mode with the instance mounted and its effect run.
InitStream ==
    /\ HomeEmpty
    /\ agent \in {NoAgent,
                  Agent(TRUE, GLOBAL_CHAT_KEY, <<Welcome(GLOBAL_CHAT_KEY)>>,
                        <<>>, FALSE, "", 1, 1)}

\* what the user may type
Inputs == {<<>>, <<" ">>, <<"q">>, <<" ", "q", " ">>}

\* no exchange is under way
Quiet == \A k \in DOMAIN exchanges : exchanges[k].pc = "done"

\* The user changes tabs between exchanges only (tab changes during an
\* exchange are part of SpecChat).
NextStream ==
    \/ \E t \in {"upload", "chat", "global"} :
          ~agent.present /\ Quiet /\ SetActiveTab(t)
    \/ \E v \in Inputs : SetInput(v)
    \/ (SubmitRejected \/ Len(exchanges) < MaxStreamSends) /\ Submit
    \/ \E k \in 1..MaxSends, msg \in {"Failed to fetch", "Failed to send message"} :
          ChatFetchError(k, msg)
    \/ \E k \in 1..MaxSends, h \in BOOLEAN, body \in Bodies : RespondOk(k, h, body)
    \/ \E k \in 1..MaxSends, n \in 1..MaxBodyLen : ReadChunk(k, n)
    \/ \E k \in 1..MaxSends : ReadDone(k)
    \/ \E k \in 1..MaxSends : ReadFail(k)
    \/ \E k \in 1..MaxFrames, ok \in BOOLEAN : SaveSettle(k, ok)
    \/ \E c \in Keys : AgentShow(c)
    \/ \E v \in Inputs : AgentSetInput(v)
    \/ send
    \/ \E k \in 1..MaxAgentSends, text \in {<<>>, <<"a">>} :
          AgentResponse(k, TRUE, text, "")
    \/ \E k \in 1..MaxAgentSends, detail \in {"agent error", "HTTP 500"} :
          AgentResponse(k, FALSE, <<>>, detail)
    \/ \E k \in 1..MaxAgentSends : AgentFail(k, "Failed to fetch")
    \/ clear

SpecStream == InitStream /\ [][NextStream]_vars

(* ------------------------------------------------------------------------ *)
(* Specification of the connection flow of the Cloud Sync Browser           *)
(* ------------------------------------------------------------------------ *)
InitAuth == InitDocs

NextAuth ==
    \/ startNewConnection
    \/ \E v \in {<<" ">>, <<"c">>} : SetCodeInput(v)
    \/ submitCode
    \/ \E k \in 1..MaxSyncCalls : ExchangeResponse(k, TRUE, "", FALSE)
    \/ \E k \in 1..MaxSyncCalls, detail \in {"", "expired code"} :
          ExchangeResponse(k, FALSE, detail, FALSE)
    \/ \E k \in 1..MaxSyncCalls : ExchangeResponse(k, FALSE, "", TRUE)
    \/ cancelAll
    \/ \E v \in {<<" ">>, <<"n">>} : SetFName(v)
    \/ \E v \in {<<"p">>} : SetFPath(v)
    \/ handleCreate
    \/ \E k \in 1..MaxSyncCalls, ok \in BOOLEAN : CreateResponse(k, ok)
    \/ LoadSourcesTick
    \/ \E k \in 1..MaxSyncCalls, ok \in BOOLEAN : SourcesResponse(k, ok)

SpecAuth == InitAuth /\ [][NextAuth]_vars

(* ------------------------------------------------------------------------ *)
(* Specification of the Cloud Sync Browser with Home's Document set         *)
(* ------------------------------------------------------------------------ *)
\* The page after its initial load, on a service that holds no document, or
\* one document named a (ready, or failed).
InitSync ==
    /\ \E st \in {"absent", "ready", "failed"} :
          /\ serverDocs = [i \in DocIds |-> IF i = 1 THEN st ELSE "absent"]
          /\ documents = ServerList(MaxDocs)
          /\ selectedDocument = FindReady(documents)
          /\ activeTab = IF selectedDocument # NoDoc THEN "chat" ELSE "upload"
          /\ docNames = [i \in DocIds |-> IF i = 1 /\ st # "absent" THEN "a" ELSE ""]
    /\ listFetch = LoadDone
    /\ homePolls = <<>>
    /\ uzProcessing = <<>>
    /\ uzPolls = <<>>
    /\ uploads = <<>>
    /\ deletes = <<>>
    /\ chatStateMap = [k \in Keys |-> NoChat]
    /\ ci = IF activeTab = "upload" THEN Unmounted
            ELSE Instance(TRUE, <<>>, FALSE, 0, "", 0)
    /\ exchanges = <<>>
    /\ nextSid = 1
    /\ issuedFor = [i \in 1..MaxSends |-> NoKey]
    /\ saveCalls = <<>>
    /\ agent = NoAgent
    /\ agentCalls = <<>>
    /\ sync = Panel
    /\ sources = ConnectedSources
    /\ serverSources = ConnectedSources
    /\ syncCalls = <<>>
    /\ batches = <<>>

NextSync ==
    \/ \E s \in SourceIds : openBrowser(s)
    \/ \E s \in SourceIds, path \in {"/", "/d"} : navigateToFolder(s, path)
    \/ \E s \in SourceIds : navigateUp(s)
    \/ \E k \in 1..MaxSyncCalls : BrowseResponse(k, TRUE, "", FALSE)
    \/ \E k \in 1..MaxSyncCalls, detail \in {"", "no such folder"} :
          BrowseResponse(k, FALSE, detail, FALSE)
    \/ \E k \in 1..MaxSyncCalls : BrowseResponse(k, FALSE, "", TRUE)
    \/ \E s \in SourceIds, f \in 1..2 : toggleFileSelection(s, f)
    \/ \E s \in SourceIds : selectAll(s)
    \/ \E s \in SourceIds, f \in 1..2 : ImportFile(s, f)
    \/ \E s \in SourceIds : importSelected(s)
    \/ \E k \in 1..MaxSyncCalls, withId \in BOOLEAN : ImportResponse(k, TRUE, withId)
    \/ \E k \in 1..MaxSyncCalls : ImportResponse(k, FALSE, FALSE)

SpecSync == InitSync /\ [][NextSync]_vars

(* ------------------------------------------------------------------------ *)
(* Specification of the browser over several sources                        *)
(* ------------------------------------------------------------------------ *)
\* The panel over one source more than SpecSync has, every one connected
\* and holding its credential, on a service without documents.
BrowseSourceIds == 1..(MaxSources + 1)
InitBrowse ==
    /\ documents = <<>>
    /\ selectedDocument = NoDoc
    /\ activeTab = "upload"
    /\ serverDocs = [i \in DocIds |-> "absent"]
    /\ docNames = [i \in DocIds |-> ""]
    /\ listFetch = LoadDone
    /\ homePolls = <<>>
    /\ uzProcessing = <<>>
    /\ uzPolls = <<>>
    /\ uploads = <<>>
    /\ deletes = <<>>
    /\ chatStateMap = [k \in Keys |-> NoChat]
    /\ ci = Unmounted
    /\ exchanges = <<>>
    /\ nextSid = 1
    /\ issuedFor = [i \in 1..MaxSends |-> NoKey]
    /\ saveCalls = <<>>
    /\ agent = NoAgent
    /\ agentCalls = <<>>
    /\ sync = Panel
    /\ sources = [i \in BrowseSourceIds |-> SyncSource(i, TRUE, "token")]
    /\ serverSources = sources
    /\ syncCalls = <<>>
    /\ batches = <<>>

NextBrowse ==
    \/ \E s \in BrowseSourceIds : openBrowser(s)
    \/ \E s \in BrowseSourceIds, path \in {"/", "/d"} : navigateToFolder(s, path)
    \/ \E s \in BrowseSourceIds : navigateUp(s)
    \/ \E k \in 1..MaxSyncCalls : BrowseResponse(k, TRUE, "", FALSE)
    \/ \E k \in 1..MaxSyncCalls : BrowseResponse(k, FALSE, "", FALSE)
    \/ \E s \in BrowseSourceIds, f \in 1..2 : toggleFileSelection(s, f)
    \/ \E s \in BrowseSourceIds : selectAll(s)

SpecBrowse == InitBrowse /\ [][NextBrowse]_vars

(* ------------------------------------------------------------------------ *)
(* Specification of the source cards: sync, disconnect and the list refresh *)
(* ------------------------------------------------------------------------ *)
NextSources ==
    \/ \E s \in BrowseSourceIds : handleSync(s)
    \/ \E s \in BrowseSourceIds : handleDisconnect(s)
    \/ \E k \in 1..MaxSyncCalls, accepted \in BOOLEAN, thrown \in BOOLEAN :
          TriggerResponse(k, accepted, thrown)
    \/ \E k \in 1..MaxSyncCalls : SyncTimerFires(k)
    \/ \E s \in BrowseSourceIds, st \in {"idle", "error"} : ServerSyncDone(s, st)
    \/ LoadSourcesTick
    \/ \E k \in 1..MaxSyncCalls, ok \in BOOLEAN : SourcesResponse(k, ok)

SpecSources == InitBrowse /\ [][NextSources]_vars

(* ------------------------------------------------------------------------ *)
(* Specification of a browse session whose source gets disconnected         *)
(* ------------------------------------------------------------------------ *)
\* The browser with selection and imports as in SpecSync, next to the
\* disconnect of the source and the list refresh that shows it.
NextSession ==
    \/ \E s \in SourceIds : openBrowser(s)
    \/ \E k \in 1..MaxSyncCalls : BrowseResponse(k, TRUE, "", FALSE)
    \/ \E s \in SourceIds, f \in 1..2 : toggleFileSelection(s, f)
    \/ \E s \in SourceIds : selectAll(s)
    \/ \E s \in SourceIds, f \in 1..2 : ImportFile(s, f)
    \/ \E s \in SourceIds : importSelected(s)
    \/ \E k \in 1..MaxSyncCalls : ImportResponse(k, TRUE, TRUE)
    \/ \E k \in 1..MaxSyncCalls : ImportResponse(k, FALSE, FALSE)
    \/ \E s \in SourceIds : handleDisconnect(s)
    \/ \E k \in 1..MaxSyncCalls, accepted \in BOOLEAN :
          TriggerResponse(k, accepted, FALSE)
    \/ \E k \in 1..MaxSyncCalls : SourcesResponse(k, TRUE)

SpecSession == InitSync /\ [][NextSession]_vars

(* ------------------------------------------------------------------------ *)
(* Document lifecycle                                                       *)
(* ------------------------------------------------------------------------ *)
\* C1: in the Document set held by Home a Document's status changes only
\* from processing to ready or from processing to failed; a Document that is
\* ready or failed never changes status again.
C1_StatusOnlyToTerminal ==
    [][\A i \in DocIds :
         LET old == StatusOf(documents, i)
             new == StatusOf(documents', i) IN
           (old # "absent" /\ new # "absent" /\ old # new)
               => (old = "processing" /\ new \in Terminal)]_vars

(* ------------------------------------------------------------------------ *)
(* Chat contexts                                                            *)
(* ------------------------------------------------------------------------ *)
\* a request was accepted in this step / exchange k moved in this step
Sent == Len(exchanges') = Len(exchanges) + 1
Progressed(k) ==
    \/ exchanges'[k].pc # exchanges[k].pc
    \/ exchanges'[k].wire # exchanges[k].wire
\* the Document behind a key left the Document set in this step
DeletedKey(key) ==
    \E i \in DocIds : /\ KeyOf(i) = key
                      /\ StatusOf(documents, i) # "absent"
                      /\ StatusOf(documents', i) = "absent"
Outstanding(key) ==
    {k \in DOMAIN exchanges : exchanges[k].reqKey = key /\ exchanges[k].pc # "done"}

\* C2: the message list stored under a context key changes only by an action
\* of that context: a send made in it, a step of the exchange of a request
\* made for it (response, frames, error, close), or the deletion of its
\* Document.  Whatever is done in another context, and selecting documents or
\* switching tabs, leaves it unchanged.
C2_MessagesChangeOnlyByOwnContext ==
    [][\A key \in Keys :
         chatStateMap'[key].messages # chatStateMap[key].messages
            => \/ Sent /\ exchanges'[Len(exchanges')].reqKey = key
               \/ \E k \in DOMAIN exchanges :
                     exchanges[k].reqKey = key /\ Progressed(k)
               \/ DeletedKey(key)]_vars

\* C2 witness: a stream started in one context has folded a delta into that
\* context's list while the user is looking at another context.
C2_Witness ==
    \E k \in DOMAIN exchanges :
        /\ exchanges[k].pc = "read"
        /\ ContentOf(exchanges[k].cur, exchanges[k].aid) = <<"a">>
        /\ ci.mounted
        /\ ActiveKey \notin {NoKey, exchanges[k].reqKey}
        /\ chatStateMap[exchanges[k].reqKey].messages = exchanges[k].cur

\* C3: every chat request carries as session_id either null or an identifier
\* the Answer Service issued in reply to a request of the same context.
C3_SessionIdOfOwnContext ==
    \A k \in DOMAIN exchanges :
        exchanges[k].sidSent = 0 \/ issuedFor[exchanges[k].sidSent] = exchanges[k].reqKey

\* C8: at most one request/stream is outstanding per context key.
C8_OneOutstandingPerContext ==
    \A key \in Keys : Cardinality(Outstanding(key)) <= 1

(* ------------------------------------------------------------------------ *)
(* One exchange and its stream                                              *)
(* ------------------------------------------------------------------------ *)
\* the messages of exchange x when its read loop starts
StartOf(x) == (x.msgs0 \o <<x.user>>) \o <<Message(x.aid, "assistant", <<>>)>>
\* the assistant message of exchange x in the list of its context
AssistantText(map, x) == ContentOf(map[x.reqKey].messages, x.aid)

\* C4: once the whole body of a response has been read, the messages are
\* those the read loop produces when the same body arrives as one chunk,
\* wherever the body was cut into chunks.
C4_ChunkBoundaryInvariance ==
    \A k \in DOMAIN exchanges :
        LET x == exchanges[k] IN
        (x.pc = "read" /\ x.wire = <<>>)
            => x.cur = FoldChunk(StartOf(x), x.body, x.aid, x.usid).cur

\* C5: once a frame with done has been observed in a response, no later
\* frame of it changes the assistant message or issues a persistence call.
C5_NothingAfterDone ==
    [][\A k \in DOMAIN exchanges :
         (exchanges[k].pc = "read" /\ exchanges[k].done)
            => /\ saveCalls' = saveCalls
               /\ AssistantText(chatStateMap', exchanges[k])
                     = AssistantText(chatStateMap, exchanges[k])]_vars

\* the text d1 ... dn of the content frames of a body of whole frames
RECURSIVE DeltasText(_)
DeltasText(body) ==
    IF body = <<>> THEN <<>>
    ELSE JSONParse(SubSeq(body, 3, 4)).content
            \o DeltasText(SubSeq(body, FrameLen + 1, Len(body)))

\* C6: a response status(thinking), content d1, ..., content dn, done that
\* is read in one piece leaves d1 ... dn as the assistant text: the first
\* delta replaces the placeholder, every later one is appended.
C6_PlaceholderReplacedThenAppended ==
    [][\A k \in DOMAIN exchanges :
         LET x == exchanges[k] IN
         (/\ x.pc = "read" /\ x.body \in Answers /\ x.wire = x.body
          /\ DeltasText(x.body) # <<>>
          /\ exchanges'[k].pc = "read" /\ exchanges'[k].wire = <<>>)
            => ContentOf(exchanges'[k].cur, x.aid) = DeltasText(x.body)]_vars

\* C7: when an exchange whose assistant message was appended ends otherwise
\* than by the close of the transport, the error text is shown, and if the
\* assistant message is empty at that moment the context's list is the
\* earlier messages followed by the user's question, without it.
C7_EmptyAssistantRemovedOnError ==
    [][\A k \in DOMAIN exchanges :
         LET x == exchanges[k] IN
         (x.pc = "read" /\ x.live /\ exchanges'[k].pc = "done" /\ ~ReadDone(k))
            => /\ ci'.error # ""
               /\ AssistantText(chatStateMap', x) = <<>>
                     => chatStateMap'[x.reqKey].messages = x.msgs0 \o <<x.user>>]_vars

(* ------------------------------------------------------------------------ *)
(* Rejected sends and the busy flag                                         *)
(* ------------------------------------------------------------------------ *)
\* a question that is empty or consists of blanks
Blank(t) == \A i \in DOMAIN t : t[i] = " "
UserCount(msgs) == Cardinality({i \in DOMAIN msgs : msgs[i].role = "user"})

\* C9: in a state where a send is rejected (blank question, busy flag set,
\* or document mode without a document) no step issues a request, appends a
\* user message, sets the busy flag or clears the error text; for
\* ChatInterface.handleSubmit and for AgentChat.send.
C9_RejectedSendChangesNothing ==
    [][/\ (/\ ci.mounted
           /\ \/ Blank(ci.input)
              \/ ci.isLoading
              \/ activeTab # "global" /\ selectedDocument = NoDoc)
          => /\ Len(exchanges') = Len(exchanges)
             /\ \A key \in Keys : UserCount(chatStateMap'[key].messages)
                                     <= UserCount(chatStateMap[key].messages)
             /\ ci'.isLoading => ci.isLoading
             /\ (ci'.mounted /\ ci.error # "") => ci'.error = ci.error
       /\ (agent.present /\ (Blank(agent.input) \/ agent.thinking))
          => /\ Len(agentCalls') = Len(agentCalls)
             /\ UserCount(agent'.msgs) <= UserCount(agent.msgs)
             /\ agent'.thinking => agent.thinking
             /\ (agent.err # "" /\ agent'.ctx = agent.ctx /\ agent'.drawn = agent.drawn)
                   => agent'.err = agent.err]_vars

\* C9 witness: blanks are typed into the form while the error of an
\* earlier exchange is shown, so a send would be rejected there.
C9_Witness ==
    /\ FormRendered
    /\ ci.input = <<" ">>
    /\ ~ci.isLoading
    /\ ci.error # ""
    /\ exchanges # <<>>

\* C10: when an exchange terminates (close after done, close without done,
\* error frame, response that is not ok, network failure) the busy flag is
\* false afterwards, and the flag is set only while a request of the
\* instance is outstanding; for ChatInterface and for AgentChat.
C10_BusyClearedOnTermination ==
    [][/\ \A k \in DOMAIN exchanges :
            (exchanges[k].live /\ exchanges[k].pc # "done" /\ exchanges'[k].pc = "done")
               => ~ci'.isLoading
       /\ ci'.isLoading
            => \E k \in DOMAIN exchanges' :
                  exchanges'[k].live /\ exchanges'[k].pc # "done"
       /\ \A k \in DOMAIN agentCalls :
            (agentCalls[k].pc # "done" /\ agentCalls'[k].pc = "done")
               => ~agent'.thinking
       /\ agent'.thinking
            => \E k \in DOMAIN agentCalls' : agentCalls'[k].pc # "done"]_vars

\* C10 witness: an exchange whose done frame led to a persistence call has
\* terminated by the close of the transport and the busy flag of the
\* instance that ran it is false.
C10_Witness ==
    /\ ci.mounted
    /\ ~ci.isLoading
    /\ ci.error = ""
    /\ saveCalls # <<>>
    /\ \E k \in DOMAIN exchanges : exchanges[k].pc = "done"

(* ------------------------------------------------------------------------ *)
(* Persistence of the final answer                                          *)
(* ------------------------------------------------------------------------ *)
DoneLine == Prefix \o <<"{done:true", "}">>
ErrorLine == Prefix \o <<"{error:boom", "}">>
\* line j gives the assistant message a text
GivesText(line) ==
    \/ line = Prefix \o <<"{status:thinking", "}">>
    \/ line = Prefix \o <<"{content:a", "}">>
    \/ line = Prefix \o <<"{content:Analyzing documents...", "}">>
\* Reading the first n pieces of x's remaining body as one chunk, the loop
\* observes a done frame while the assistant message is non-empty and a
\* session identifier exists (and before any error frame ended the loop).
ObservesDone(x, n) ==
    LET lines == Split(SubSeq(x.wire, 1, n), <<>>) IN
    \E j \in DOMAIN lines :
        /\ lines[j] = DoneLine
        /\ x.usid # 0
        /\ \A i \in 1..(j - 1) : lines[i] # ErrorLine
        /\ \/ ContentOf(x.cur, x.aid) # <<>>
           \/ \E i \in 1..(j - 1) : GivesText(lines[i])

\* C11: a save-response call is issued when and only when a done frame is
\* observed while the final assistant message is non-empty and a session
\* identifier exists; the call's failure changes neither the messages, the
\* error text nor the busy flag, and no call is issued because one failed.
C11_SaveIffDoneObserved ==
    [][/\ \A k \in DOMAIN exchanges :
            LET x == exchanges[k]
                n == Len(x.wire) - Len(exchanges'[k].wire) IN
            (x.pc = "read" /\ exchanges'[k].pc = "read" /\ n > 0)
               => (Len(saveCalls') > Len(saveCalls) <=> ObservesDone(x, n))
       /\ Len(saveCalls') > Len(saveCalls)
            => /\ \E k \in DOMAIN exchanges :
                    /\ exchanges[k].pc = "read"
                    /\ exchanges'[k] # exchanges[k]
                    /\ \E n \in 1..Len(exchanges[k].wire) : ObservesDone(exchanges[k], n)
                    /\ \A i \in (Len(saveCalls) + 1)..Len(saveCalls') :
                          /\ saveCalls'[i].session_id = exchanges[k].usid
                          /\ saveCalls'[i].content # <<>>
               /\ \A i \in DOMAIN saveCalls : saveCalls'[i] = saveCalls[i]
       /\ (\E i \in DOMAIN saveCalls : saveCalls[i].pc = "sent" /\ saveCalls'[i].pc = "failed")
            => /\ chatStateMap' = chatStateMap
               /\ ci' = ci
               /\ Len(saveCalls') = Len(saveCalls)]_vars

\* a call failed while its exchange was still reading, and one after it ended
C11_Witness ==
    /\ \E i \in DOMAIN saveCalls : saveCalls[i].pc = "failed"
    /\ \E k \in DOMAIN exchanges : exchanges[k].pc = "read" /\ ci.isLoading
    /\ Len(saveCalls) = 1

(* ------------------------------------------------------------------------ *)
(* Malformed frames                                                         *)
(* ------------------------------------------------------------------------ *)
\* the payload of a frame line fails to parse
Malformed(line) == StartsWithData(line) /\ JSONParse(Slice6(line)) = SyntaxError
RECURSIVE WellFormedOnly(_)
WellFormedOnly(lines) ==
    IF lines = <<>> THEN <<>>
    ELSE IF Malformed(Head(lines)) THEN WellFormedOnly(Tail(lines))
    ELSE <<Head(lines)>> \o WellFormedOnly(Tail(lines))

\* C12: a frame line whose payload fails to parse is skipped: a chunk with
\* such lines leaves the messages, the persistence calls, the error text and
\* the busy flag as the same chunk without those lines would, the read loop
\* goes on with the rest of the stream, and the only errors an exchange
\* surfaces are those of an error frame or of the transport.
C12_MalformedFrameSkipped ==
    [][\A k \in DOMAIN exchanges :
          LET x == exchanges[k]
              y == exchanges'[k]
              n == Len(x.wire) - Len(y.wire)
              lines == Split(SubSeq(x.wire, 1, n), <<>>)
              g == FoldLines(Fold(x.cur, FALSE, <<>>, "", FALSE),
                             WellFormedOnly(lines), x.aid, x.usid)
          IN /\ (x.pc = "read" /\ y.pc = "read" /\ n > 0)
                  => /\ y.cur = g.cur
                     /\ saveCalls' = saveCalls \o g.saves
                     /\ chatStateMap'[x.key] =
                            IF g.changed /\ x.key # NoKey
                            THEN ChatState(g.cur, x.usid) ELSE chatStateMap[x.key]
                     /\ ci'.error = ci.error
                     /\ ci'.isLoading = ci.isLoading
                     /\ y.wire = SubSeq(x.wire, n + 1, Len(x.wire))
             /\ (x.pc = "read" /\ y.pc = "done" /\ x.live /\ ci'.error # ci.error)
                  => /\ ci'.error \in {"boom", "network error"}
                     /\ ci'.error = "boom"
                          => \E i \in 1..Len(x.wire) :
                                SubSeq(x.wire, i, i + 3) = ErrorLine]_vars

\* a body that starts with a malformed frame was read to its end, and the
\* content and done frames after it took effect
C12_Witness ==
    \E k \in DOMAIN exchanges :
        /\ exchanges[k].pc = "read"
        /\ exchanges[k].body = (BadFrame \o Frame("{content:a")) \o Frame("{done:true")
        /\ exchanges[k].wire = <<>>
        /\ ContentOf(exchanges[k].cur, exchanges[k].aid) = <<"a">>
        /\ saveCalls # <<>>
        /\ ci.error = ""

(* ------------------------------------------------------------------------ *)
(* Status polls                                                             *)
(* ------------------------------------------------------------------------ *)
\* callback c of polls awaits a query that has no response, and in this step
\* goes on without one: the query failed
QueryFailed(polls, polls2, c) ==
    /\ polls[c].resp.kind = "none"
    /\ polls2 = PollAdvance([polls EXCEPT ![c].logged = TRUE], c)
\* callback c of polls consumes in this step an ok response saying that
\* document i failed
FailedAnswered(polls, polls2, c, i) ==
    /\ polls[c].resp.kind = "ok"
    /\ polls[c].resp.doc.id = i
    /\ polls[c].resp.doc.status = "failed"
    /\ polls2 = PollAdvance(polls, c)

C17_FailedExchangeStays ==
    [][\A k \in 1..MaxSyncCalls, detail \in {"", "expired code"}, thrown \in BOOLEAN :
          ExchangeResponse(k, FALSE, detail, thrown)
             => /\ sync'.step = sync.step
                /\ sync.step = "auth" => sync'.step = "auth" /\ sync'.authToken = ""
                /\ sync'.authToken = sync.authToken
                /\ sync'.authUser = sync.authUser
                /\ sync'.authError # ""
                /\ (~thrown /\ detail # "") => sync'.authError = detail
                /\ sources' = sources
                /\ serverSources' = serverSources
                /\ Len(syncCalls') < Len(syncCalls)]_vars

\* the provider's detail is shown in the auth step, no exchange is under way
\* and no credential is held
C17_Witness ==
    /\ sync.step = "auth"
    /\ sync.authError = "expired code"
    /\ ~sync.exchanging
    /\ sync.authToken = ""
    /\ syncCalls = <<>>

(* ------------------------------------------------------------------------ *)
(* Cloud Sync Browser: import                                               *)
(* ------------------------------------------------------------------------ *)
\* the import requests of batch b that are under way
ImportsOf(calls, b) ==
    {k \in DOMAIN calls : calls[k].kind = "import" /\ calls[k].batch = b}

\* C18: importSelected issues its imports one at a time, the request of
\* file k+1 only in the step in which the import of file k completes, and
\* when the request of the Nth file is under way the Documents registered
\* by imports 1..N-1 of the batch are in the Document set and on the
\* service, under the names of those files, where a dedup check finds them.
C18_BatchImportsSequential ==
    /\ [](\A b \in DOMAIN batches :
            /\ Cardinality(ImportsOf(syncCalls, b)) <= 1
            /\ \A k \in ImportsOf(syncCalls, b) :
                  /\ batches[b].pos \in DOMAIN batches[b].files
                  /\ syncCalls[k].path = batches[b].files[batches[b].pos].path
                  /\ Len(batches[b].made) <= batches[b].pos - 1
                  /\ \A m \in DOMAIN batches[b].made :
                        LET id == batches[b].made[m] IN
                        /\ \E d \in DOMAIN documents : documents[d].id = id
                        /\ serverDocs[id] # "absent"
                        /\ \E n \in 1..(batches[b].pos - 1) :
                              docNames[id] = batches[b].files[n].name)
    /\ [][\A b \in DOMAIN batches :
            \/ batches'[b].pos = batches[b].pos
            \/ /\ batches'[b].pos = batches[b].pos + 1
               /\ ImportsOf(syncCalls, b) # {}
               /\ \A k \in ImportsOf(syncCalls', b) :
                     syncCalls'[k].path = batches[b].files[batches[b].pos + 1].path]_vars

\* the second import of a batch of two files is under way, and the first
\* one registered a Document
C18_Witness ==
    \E b \in DOMAIN batches :
        /\ Len(batches[b].files) = 2
        /\ batches[b].pos = 2
        /\ Len(batches[b].made) = 1
        /\ ImportsOf(syncCalls, b) # {}
        /\ isFileInSystem(batches[b].files[1].name)

(* ------------------------------------------------------------------------ *)
(* Cloud Sync Browser: deduplication                                        *)
(* ------------------------------------------------------------------------ *)
\* a Document of the set that is not failed has this original name
KnownNotFailed(name) ==
    \E d \in DOMAIN documents :
        /\ docNames[documents[d].id] = name
        /\ documents[d].status \in {"processing", "ready"}
\* the file of the listing with path q
ListedAt(q) ==
    sync.browseFiles[CHOOSE k \in DOMAIN sync.browseFiles : sync.browseFiles[k].path = q]

\* C19: a file whose name is the original name of a Document that is not
\* failed is never added to the selection (by selectAll or otherwise) and
\* its checkbox and import control are disabled, so that no request of its
\* own import button is issued; a file that matches failed Documents only
\* (or none) has its checkbox enabled and its import button rendered.
C19_KnownFilesNotSelectable ==
    /\ [](\A s \in SourceIds : \A k \in DOMAIN sync.browseFiles :
            LET file == sync.browseFiles[k] IN
            FileListShown(s)
              => IF KnownNotFailed(file.name)
                 THEN CheckboxDisabled(file) /\ ~ImportButtonShown(file)
                 ELSE /\ ~CheckboxDisabled(file)
                      /\ file.path \notin sync.importingFiles => ImportButtonShown(file))
    /\ [][/\ \A q \in sync'.selectedFiles \ sync.selectedFiles :
              /\ \E k \in DOMAIN sync.browseFiles : sync.browseFiles[k].path = q
              /\ ~KnownNotFailed(ListedAt(q).name)
          /\ \A k \in DOMAIN syncCalls' :
              (/\ syncCalls'[k].kind = "import"
               /\ syncCalls'[k].batch = 0
               /\ Len(syncCalls') > Len(syncCalls)
               /\ k = Len(syncCalls'))
                 => ~KnownNotFailed(syncCalls'[k].name)]_vars

\* the root is listed next to a failed Document named a and a Document named
\* b that is not failed: a is selected, b is not
C19_Witness ==
    /\ \E s \in SourceIds : FileListShown(s)
    /\ sync.browsePath = "/"
    /\ ~KnownNotFailed("a")
    /\ \E d \in DOMAIN documents :
          docNames[documents[d].id] = "a" /\ documents[d].status = "failed"
    /\ KnownNotFailed("b")
    /\ sync.selectedFiles = {"/a"}

(* ------------------------------------------------------------------------ *)
(* Cloud Sync Browser: directory loads                                      *)
(* ------------------------------------------------------------------------ *)
\* C20: after a loadFolder whose request fails (response not ok, or network
\* error) the panel shows an error message, the folder list, the file list
\* and the selection are empty, and the loading flag is false.
C20_FailedLoadShowsNoListing ==
    [][\A k \in 1..MaxSyncCalls, detail \in {"", "no such folder"}, thrown \in BOOLEAN :
          BrowseResponse(k, FALSE, detail, thrown)
             => /\ sync'.browseError # ""
                /\ sync'.browseFolders = <<>>
                /\ sync'.browseFiles = <<>>
                /\ sync'.selectedFiles = {}
                /\ ~sync'.browseLoading]_vars

(* ------------------------------------------------------------------------ *)
(* C14                                                                      *)
(* ------------------------------------------------------------------------ *)
SomeProcessing == \E k \in DOMAIN documents : documents[k].status = "processing"

Awaiting(polls, i) ==
    {c \in DOMAIN polls : polls[c].resp.kind = "none" /\ Head(polls[c].todo) = i}

QueriesInFlight(i) == Cardinality(Awaiting(homePolls, i)) + Cardinality(Awaiting(uzPolls, i))

\* C15: at any time at most one status query is in flight for a document id,
\* counting the callbacks of every tick of Home's loop and of UploadZone's loop.
C15_OneQueryPerDocument == \A i \in DocIds : QueriesInFlight(i) <= 1

(* ------------------------------------------------------------------------ *)
(* C16                                                                      *)
(* ------------------------------------------------------------------------ *)
OtherDocuments(ds, docId) == SelectSeq(ds, LAMBDA x : x.id # docId)

\* C16: handleDeleteDocument(id) takes the Document of that id out of the set
\* and the context keyed by that id out of the map, and leaves every other
\* Document and every other context, the global one included, as they are;
\* a delete that the service rejects leaves the set, the map and the selection
\* as they are.
C16_DeleteRemovesOnlyItsOwn ==
    [][\A d \in 1..MaxDeletes :
         /\ handleDeleteDocument(d)
              => /\ documents' = OtherDocuments(documents, deletes[d].id)
                 /\ ~chatStateMap'[KeyOf(deletes[d].id)].present
                 /\ \A key \in Keys \ {KeyOf(deletes[d].id)} :
                       chatStateMap'[key] = chatStateMap[key]
         /\ (d \in DOMAIN deletes /\ ~deletes[d].ok /\ deletes' = RemoveAt(deletes, d))
              => UNCHANGED <<documents, chatStateMap, selectedDocument, activeTab,
                             serverDocs>>]_vars

\* The Document of a context with messages is gone from the set and so is its
\* context, while the global context and another Document are still there.
C16_Witness ==
    /\ chatStateMap[GLOBAL_CHAT_KEY].present
    /\ chatStateMap[GLOBAL_CHAT_KEY].messages # <<>>
    /\ documents # <<>>
    /\ \E i \in DocIds :
          /\ serverDocs[i] = "deleted"
          /\ \A k \in DOMAIN documents : documents[k].id # i
          /\ ~chatStateMap[KeyOf(i)].present
          /\ \E k \in DOMAIN issuedFor : issuedFor[k] = KeyOf(i)

(* ------------------------------------------------------------------------ *)
(* Cloud Sync Browser: imports                                              *)
(* ------------------------------------------------------------------------ *)
\* C21: importSingleFile marks the path as importing when it sends its
\* request; when the request is over, accepted, rejected or failed, the path
\* is no longer marked; a Document, in processing state, is added to the set
\* exactly when the service accepted the import and its answer carries a
\* document id.
C21_ImportMarkAndRegister ==
    [][/\ \A s \in SourceIds, f \in 1..2 :
            ImportFile(s, f)
               => /\ sync.browseFiles[f].path \in sync'.importingFiles
                  /\ Len(syncCalls') = Len(syncCalls) + 1
                  /\ syncCalls'[Len(syncCalls')].path = sync.browseFiles[f].path
       /\ \A k \in 1..MaxSyncCalls, ok \in BOOLEAN, withId \in BOOLEAN :
            ImportResponse(k, ok, withId)
               => /\ syncCalls[k].path \notin sync'.importingFiles
                  /\ (ok /\ withId) <=> Len(documents') = Len(documents) + 1
                  /\ ~(ok /\ withId) => documents' = documents
                  /\ (ok /\ withId) => /\ Head(documents').status = "processing"
                                       /\ Tail(documents') = documents]_vars

\* A file was imported by its own button and registered, its request is over
\* and nothing is marked as importing any more.
C21_Witness ==
    /\ \E k \in DOMAIN documents :
          docNames[documents[k].id] = "b" /\ documents[k].status = "processing"
    /\ batches = <<>>
    /\ syncCalls = <<>>
    /\ sync.importingFiles = {}
    /\ sync.browseFiles # <<>>

\* C22: the batch of importSelected holds every file that is selected when
\* it starts, each once; the import of a file that is rejected or fails is
\* followed by the import of the next file of the batch like an accepted one,
\* and the selection is empty when the last import of the batch is over.
C22_BatchAttemptsEverySelected ==
    [][/\ \A s \in SourceIds :
            importSelected(s)
               => LET bt == batches'[Len(batches')] IN
                  /\ PathsOf(bt.files) = sync.selectedFiles
                  /\ Len(bt.files) = Cardinality(sync.selectedFiles)
       /\ \A k \in 1..MaxSyncCalls, ok \in BOOLEAN, withId \in BOOLEAN :
            (ImportResponse(k, ok, withId) /\ syncCalls[k].batch # 0)
               => LET b == syncCalls[k].batch
                      bt == batches[b] IN
                  IF bt.pos < Len(bt.files)
                  THEN /\ batches'[b].pos = bt.pos + 1
                       /\ \E n \in ImportsOf(syncCalls', b) :
                             syncCalls'[n].path = bt.files[bt.pos + 1].path
                  ELSE /\ ImportsOf(syncCalls', b) = {}
                       /\ sync'.selectedFiles = {}]_vars

(* ------------------------------------------------------------------------ *)
(* Cloud Sync Browser: the browser of a source                              *)
(* ------------------------------------------------------------------------ *)
\* C23: openBrowser(source) closes the browser when it is open for that
\* source, and otherwise opens it for that source at the root path with an
\* empty selection; at most one source has an open browser in any state.
C23_OpenBrowserToggles ==
    /\ [][\A s \in BrowseSourceIds :
            openBrowser(s)
               => IF sync.browseSourceId = s
                  THEN /\ sync'.browseSourceId = 0
                       /\ \A o \in BrowseSourceIds : ~BrowserShown(o)'
                       /\ sync'.selectedFiles = {}
                       /\ syncCalls' = syncCalls
                  ELSE /\ sync'.browseSourceId = s
                       /\ BrowserShown(s)'
                       /\ sync'.browsePath = "/"
                       /\ sync'.selectedFiles = {}]_vars
    /\ [](Cardinality({s \in BrowseSourceIds : BrowserShown(s)}) <= 1)

\* The browser is open for the second source with a selection, while the
\* load started for the first source, opened before it, is still under way.
C23_Witness ==
    /\ BrowserShown(2)
    /\ sync.selectedFiles # {}
    /\ \E k \in DOMAIN syncCalls : syncCalls[k].kind = "browse" /\ syncCalls[k].source = 1

(* ------------------------------------------------------------------------ *)
(* Cloud Sync Browser: creating a source                                    *)
(* ------------------------------------------------------------------------ *)
\* C24: when the service accepts the new source, handleCreate returns the
\* flow to idle and clears the credential and the account label; when the
\* service rejects the request or the request fails, the step, the credential
\* and the local list of sources stay as they are, so that a flow that is in
\* the destination form stays there with its credential.
C24_CreateOutcome ==
    [][\A k \in 1..MaxSyncCalls :
         /\ CreateResponse(k, TRUE)
              => /\ sync'.step = "idle"
                 /\ sync'.authToken = ""
                 /\ sync'.authUser = ""
         /\ CreateResponse(k, FALSE)
              => /\ sync'.step = sync.step
                 /\ sync'.authToken = sync.authToken
                 /\ sync'.authUser = sync.authUser
                 /\ sources' = sources
                 /\ serverSources' = serverSources
                 /\ sync.step = "form" => sync'.step = "form" /\ sync'.authToken # ""]_vars

\* The service accepted the source: the flow is idle without a credential,
\* the list refresh that handleCreate started is under way and the local
\* list does not hold the source yet.
C24_Witness ==
    /\ sync.step = "idle"
    /\ sync.authToken = ""
    /\ ~sync.creating
    /\ serverSources # <<>>
    /\ sources = <<>>
    /\ \E k \in DOMAIN syncCalls : syncCalls[k].kind = "sources"

(* ------------------------------------------------------------------------ *)
(* Cloud Sync Browser: sync and disconnect                                  *)
(* ------------------------------------------------------------------------ *)
\* C25: handleSync and handleDisconnect leave the local list of sources as it
\* is, when they send their request and when its answer arrives; the list,
\* and with it the status and the connection state shown for a source,
\* changes only in a step that applies an ok answer of loadSources; a trigger
\* whose request fails changes nothing and is followed by no request.
C25_TriggersLeaveList ==
    [][/\ \A s \in BrowseSourceIds :
            (handleSync(s) \/ handleDisconnect(s)) => UNCHANGED <<sources, sync>>
       /\ \A k \in 1..MaxSyncCalls, accepted \in BOOLEAN, thrown \in BOOLEAN :
            TriggerResponse(k, accepted, thrown)
               => /\ UNCHANGED <<sources, sync>>
                  /\ thrown => syncCalls' = RemoveAt(syncCalls, k)
       /\ sources' # sources
            => \E k \in DOMAIN syncCalls :
                  /\ syncCalls[k].kind = "sources"
                  /\ SourcesResponse(k, TRUE)]_vars

\* The provider carried out a disconnect and started a sync, and the cards
\* still show both sources connected and idle: no refresh was applied yet.
C25_Witness ==
    /\ \E k \in DOMAIN serverSources : ~serverSources[k].is_connected
    /\ \E k \in DOMAIN serverSources : serverSources[k].status = "syncing"
    /\ \A k \in DOMAIN sources : sources[k].is_connected /\ sources[k].status = "idle"
    /\ \E k \in DOMAIN syncCalls : syncCalls[k].kind = "sources"

(* ------------------------------------------------------------------------ *)
(* Cloud Sync Browser: the steps of the connection flow                     *)
(* ------------------------------------------------------------------------ *)
\* C26: the step of the connection flow moves only from idle to the code step
\* ("auth"), from the code step to the destination form ("form"), and from
\* either back to idle; the form is never entered from idle, and no
\* credential is held while the flow is idle.
C26_FlowTransitions ==
    /\ [][sync'.step # sync.step
            => \/ sync.step = "idle" /\ sync'.step = "auth"
               \/ sync.step = "auth" /\ sync'.step = "form"
               \/ sync.step \in {"auth", "form"} /\ sync'.step = "idle"]_vars
    /\ [](sync.step = "idle" => sync.authToken = "")

(* ------------------------------------------------------------------------ *)
(* Deleted Documents                                                        *)
(* ------------------------------------------------------------------------ *)
\* handleDeleteDocument(i) has run: the service deleted document i and the
\* set does not hold it any more
Deleted(i) ==
    /\ serverDocs[i] = "deleted"
    /\ \A k \in DOMAIN documents : documents[k].id # i

\* C27: once handleDeleteDocument(id) has run, the context keyed by id is
\* absent and no later step, a frame of a stream still under way for that
\* context included, makes an entry for id again.
C27_DeletedContextStaysAbsent ==
    /\ [](\A i \in DocIds : Deleted(i) => ~chatStateMap[KeyOf(i)].present)
    /\ [][\A i \in DocIds :
            (Deleted(i) /\ ~chatStateMap[KeyOf(i)].present)
               => ~chatStateMap'[KeyOf(i)].present]_vars

(* ------------------------------------------------------------------------ *)
(* Status queries and the Document set                                      *)
(* ------------------------------------------------------------------------ *)
\* In this step a status query for document i is sent by a poller: a tick
\* starts a callback whose first id is i, or a callback goes on to i.
QueryIssued(polls, polls2, i) ==
    \/ /\ Len(polls2) = Len(polls) + 1
       /\ Head(polls2[Len(polls2)].todo) = i
    \/ /\ Len(polls2) = Len(polls)
       /\ \E c \in DOMAIN polls :
             /\ polls2[c].todo = Tail(polls[c].todo)
             /\ Head(polls2[c].todo) = i

\* C28: a status query is sent for a document id only while the Document set
\* holds that id with status processing: none after the Document was
\* deleted, none after its status in the set became ready or failed, by
\* either poller and by callbacks that were running when the set changed.
C28_NoQueryAfterTerminal ==
    [][\A i \in DocIds :
          (QueryIssued(homePolls, homePolls', i) \/ QueryIssued(uzPolls, uzPolls', i))
             => StatusOf(documents, i) = "processing"]_vars

(* ------------------------------------------------------------------------ *)
(* A stream whose chat surface was closed                                   *)
(* ------------------------------------------------------------------------ *)
\* C29: once the ChatInterface that started an exchange is unmounted, no
\* further chunk of that exchange's stream changes the messages of any
\* context; what was folded before stays as it is.
C29_NoFoldAfterUnmount ==
    [][\A k \in 1..MaxSends :
          (/\ k \in DOMAIN exchanges
           /\ ~exchanges[k].live
           /\ ReadChunk(k, Len(exchanges[k].wire)))
             => chatStateMap' = chatStateMap]_vars

(* ------------------------------------------------------------------------ *)
(* The busy flag and the contexts                                           *)
(* ------------------------------------------------------------------------ *)
\* C30: the busy flag is per context: when the form of a context without an
\* outstanding request is rendered while another context has an outstanding
\* request, the form takes a question and a send: the instance is not busy.
C30_BusyPerContext ==
    (/\ FormRendered
     /\ ActiveKey # NoKey
     /\ Outstanding(ActiveKey) = {}
     /\ \E key \in Keys \ {ActiveKey} : Outstanding(key) # {})
       => ~ci.isLoading

(* ------------------------------------------------------------------------ *)
(* Cloud Sync Browser: the selection and the known files                    *)
(* ------------------------------------------------------------------------ *)
\* C31: in every state no file of the listing whose name is the original
\* name of a Document that is not failed is in the selection, also after a
\* selected file was imported by its own button.
C31_SelectionHoldsNoKnownFile ==
    \A f \in DOMAIN sync.browseFiles :
        sync.browseFiles[f].path \in sync.selectedFiles
           => ~isFileInSystem(sync.browseFiles[f].name)

\* C32: after every step that changes the browsed path through loadFolder
\* (openBrowser, navigateToFolder, navigateUp) the selection is empty and no
\* path is marked as importing.
C32_PathChangeClearsSets ==
    [][\A s \in SourceIds :
          (\/ openBrowser(s) /\ sync.browseSourceId # s
           \/ \E path \in {"/", "/d"} : navigateToFolder(s, path)
           \/ navigateUp(s))
             => /\ sync'.selectedFiles = {}
                /\ sync'.importingFiles = {}]_vars

(* ------------------------------------------------------------------------ *)
(* Terminal Documents                                                       *)
(* ------------------------------------------------------------------------ *)
\* C33: in every state a Document of the set whose status is ready or failed
\* carries no processing stage, whichever way its status became terminal.
C33_TerminalCarriesNoStage ==
    \A k \in DOMAIN documents :
        documents[k].status \in Terminal => documents[k].stage = "none"

(* ------------------------------------------------------------------------ *)
(* Cloud Sync Browser: browsing and the connection of the source            *)
(* ------------------------------------------------------------------------ *)
\* source s is in the local list and shown as connected
SeenConnected(s) ==
    \E k \in DOMAIN sources : sources[k].id = s /\ sources[k].is_connected

\* a request is sent in this step: it is the last of the requests under way
RequestSent ==
    /\ syncCalls' # <<>>
    /\ \/ Len(syncCalls') > Len(syncCalls)
       \/ Len(syncCalls') = Len(syncCalls) /\ syncCalls' # syncCalls

\* C34: a browser is shown only for a source that is seen as connected, and
\* no directory load and no import is sent for a source that the local list
\* shows as disconnected.
C34_BrowseOnlyWhileConnected ==
    /\ [](\A s \in SourceIds : BrowserShown(s) => SeenConnected(s))
    /\ [][RequestSent
            => LET c == syncCalls'[Len(syncCalls')] IN
               c.kind \in {"browse", "import"} => SeenConnected(c.source)]_vars

(* ------------------------------------------------------------------------ *)
(* Home: the polls reach the terminal status                                *)
(* ------------------------------------------------------------------------ *)
\* C35: a Document that is processing in the set while the Ingestion Service
\* holds it as ready or failed gets that status in the set eventually, under
\* fair ticks and responses and with not all of its queries failing.
C35_PollsReachTerminal ==
    \A i \in DocIds :
        (StatusOf(documents, i) = "processing" /\ serverDocs[i] \in Terminal)
            ~> (StatusOf(documents, i) = serverDocs[i])

\* a response of Home's loop put the terminal status of the service into the
\* set: UploadZone, the other way to a ready status, still follows the Document
C35_Witness ==
    \E k \in DOMAIN documents :
        /\ documents[k].status \in Terminal
        /\ documents[k].status = serverDocs[documents[k].id]
        /\ \E j \in DOMAIN uzProcessing : uzProcessing[j] = documents[k].id
(* ------------------------------------------------------------------------ *)
(* Conversation: status frames between content frames                       *)
(* ------------------------------------------------------------------------ *)
\* the bodies of n whole frames, each a status frame or the content frame "a"
RECURSIVE StatusContentOf(_)
StatusContentOf(n) ==
    IF n = 0 THEN {<<>>}
    ELSE {b \o f : b \in StatusContentOf(n - 1),
                   f \in {Frame("{status:thinking"), Frame("{content:a")}}

\* C36: a response made of status frames and at least one content frame, in
\* any order and read in one piece, leaves the texts of its content frames, in
\* the order of arrival, as the assistant text: a status frame changes no
\* text that a content frame has put there.
C36_StatusKeepsContent ==
    [][\A k \in DOMAIN exchanges :
         LET x == exchanges[k] IN
         (/\ x.pc = "read" /\ x.wire = x.body
          /\ x.body \in UNION {StatusContentOf(n) : n \in 1..MaxFrames}
          /\ DeltasText(x.body) # <<>>
          /\ exchanges'[k].pc = "read" /\ exchanges'[k].wire = <<>>)
            => ContentOf(exchanges'[k].cur, x.aid) = DeltasText(x.body)]_vars

(* ------------------------------------------------------------------------ *)
(* AgentChat: a reset while a request is in flight                          *)
(* ------------------------------------------------------------------------ *)
\* C37: a request of AgentChat that was sent under a session identifier
\* other than the present one, that is, before the last reset (clear, or
\* a change of context), adds neither its reply nor its error to the
\* conversation when it ends.
C37_ResetDropsRequestInFlight ==
    [][\A k \in DOMAIN agentCalls :
         (/\ agentCalls[k].pc = "fetch"
          /\ agentCalls'[k].pc = "done"
          /\ agentCalls[k].sessionId # agent.sessionId)
            => /\ agent'.msgs = agent.msgs
               /\ agent'.err = agent.err]_vars

(* ------------------------------------------------------------------------ *)
(* Cloud Sync Browser: the answer to a load that is no longer wanted        *)
(* ------------------------------------------------------------------------ *)
\* C38: the answer to a directory load that arrives after the browser was
\* closed or opened for another source puts no listing and no path into
\* the panel.
C38_LateLoadDoesNotPopulate ==
    [][\A k \in 1..MaxSyncCalls :
         (/\ BrowseResponse(k, TRUE, "", FALSE)
          /\ syncCalls[k].source # sync.browseSourceId)
            => /\ sync'.browseFolders = sync.browseFolders
               /\ sync'.browseFiles = sync.browseFiles
               /\ sync'.browsePath = sync.browsePath]_vars

(* ------------------------------------------------------------------------ *)
(* Cloud Sync Browser: imports of one file                                  *)
(* ------------------------------------------------------------------------ *)
\* C39: no two import requests for the same file path are in flight at the
\* same time.
C39_OneImportPerPath ==
    \A j, k \in DOMAIN syncCalls :
        (/\ j # k
         /\ syncCalls[j].kind = "import"
         /\ syncCalls[k].kind = "import")
            => syncCalls[j].path # syncCalls[k].path

(* ------------------------------------------------------------------------ *)
(* Home: registration next to the initial load                              *)
(* ------------------------------------------------------------------------ *)
\* C40: a Document that is in the set stays in it (no Document is deleted
\* here), also when the response of the initial load arrives, and no two
\* entries of the set have the same id.
C40_RegisteredStaysOnce ==
    /\ [](\A j, k \in DOMAIN documents :
             j # k => documents[j].id # documents[k].id)
    /\ [][\A i \in DocIds :
             StatusOf(documents, i) # "absent"
                => StatusOf(documents', i) # "absent"]_vars

====
